---- MODULE Spec2Model ----
(***************************************************************************)
(* Model of the haptic bridge client's resilient stream loop               *)
(* (picture2notes_client.websocket_loop; exp_client.websocket_client and   *)
(* rpi_color_client.websocket_loop share the same loop skeleton), its      *)
(* message classification, the serial converters and the two output        *)
(* backends (SerialSender, SkineticSenderSPN).                             *)
(***************************************************************************)
EXTENDS Integers, Sequences, FiniteSets, TLC

(***************************************************************************)
(* Bounds of the model                                                     *)
(***************************************************************************)
MaxWaits == 7
MaxMsgs == 2
MaxFailsSeen == 3

Min(a, b) == IF a < b THEN a ELSE b
Max(a, b) == IF a > b THEN a ELSE b

(***************************************************************************)
(* JSON values as json.loads returns them: tagged values.  A dict is an    *)
(* ordered sequence of key/value pairs (Python dicts keep insertion order).*)
(***************************************************************************)
VStr(s) == [t |-> "str", s |-> s]
VInt(n) == [t |-> "int", n |-> n]
VList(items) == [t |-> "list", items |-> items]
VDict(pairs) == [t |-> "dict", pairs |-> pairs]
KV(k, v) == [k |-> k, v |-> v]

IsDict(v) == v.t = "dict"
IsList(v) == v.t = "list"
IsInt(v) == v.t = "int"

\* `key in d` for a dict value
HasKey(d, key) == \E i \in 1..Len(d.pairs) : d.pairs[i].k = key

\* d.get(key, default)
Get(d, key, default) ==
  IF HasKey(d, key)
    THEN d.pairs[CHOOSE i \in 1..Len(d.pairs) : d.pairs[i].k = key].v
    ELSE default

\* list(d.values())
Values(d) == [i \in 1..Len(d.pairs) |-> d.pairs[i].v]

(***************************************************************************)
(* Payloads used as inputs                                                 *)
(***************************************************************************)
Node(idx, inten) == VDict(<<KV("node_index", idx), KV("intensity", inten)>>)
Frame(dur, nodes) == VDict(<<KV("duration", VInt(dur)), KV("frame_nodes", VList(nodes))>>)
Rgb(r, g, b) == VDict(<<KV("r", VInt(r)), KV("g", VInt(g)), KV("b", VInt(b))>>)

FrameA == Frame(100, <<Node(VList(<<VInt(1), VInt(2)>>), VInt(50))>>)
FrameB == Frame(20, <<>>)

P_envelope == VDict(<<KV("type", VStr("info")), KV("message", VStr("hello"))>>)
P_envelope_color ==
  VDict(<<KV("type", VStr("info")), KV("message", VStr("hello")),
          KV("color", Rgb(255, 0, 128))>>)
P_envelope_word ==
  VDict(<<KV("message", VStr("hello")), KV("word", VList(<<FrameA>>)),
          KV("type", VStr("info"))>>)
P_type_color == VDict(<<KV("type", VStr("info")), KV("color", Rgb(255, 0, 128))>>)
P_color ==
  VDict(<<KV("color", Rgb(255, 0, 128)), KV("intensity", VInt(200)),
          KV("duration", VInt(10))>>)
P_contour == VDict(<<KV("word", VList(<<FrameA, FrameB>>))>>)
P_list == VList(<<FrameB>>)
P_unrecognized == VDict(<<KV("foo", VStr("bar"))>>)
P_set_output == VDict(<<KV("cmd", VStr("set_output")), KV("value", VStr("skinetic"))>>)
P_set_mode == VDict(<<KV("cmd", VStr("set_mode")), KV("value", VStr("color"))>>)
P_set_mode_vendor == VDict(<<KV("cmd", VStr("set_mode")), KV("value", VStr("vendor"))>>)
P_get_mode == VDict(<<KV("cmd", VStr("get_mode"))>>)
P_get_output ==
  VDict(<<KV("cmd", VStr("get_output")), KV("color", Rgb(255, 0, 128))>>)
P_bad_cmd == VDict(<<KV("cmd", VStr("set_output")), KV("value", VStr("usb"))>>)
P_ordered ==
  VDict(<<KV("word", VList(<<
    VDict(<<KV("order", VInt(0)), KV("duration", VInt(30)),
            KV("frame_nodes", VList(<<Node(VInt(3), VInt(90))>>))>>)>>))>>)

(***************************************************************************)
(* Raw websocket messages.  A message is text or bytes; bytes carry either *)
(* a valid UTF-8 encoding of a text or an invalid byte sequence.           *)
(***************************************************************************)
Texts ==
  [ping |-> "__ping__",
   garbage |-> "hello",
   deep |-> "[[[[...2000 levels...]]]]",
   envelope |-> "{\"type\":\"info\",\"message\":\"hello\"}",
   envelope_color |-> "{\"type\":\"info\",\"message\":\"hello\",\"color\":{\"r\":255,\"g\":0,\"b\":128}}",
   envelope_word |-> "{\"message\":\"hello\",\"word\":[{\"duration\":100,\"frame_nodes\":[{\"node_index\":[1,2],\"intensity\":50}]}],\"type\":\"info\"}",
   type_color |-> "{\"type\":\"info\",\"color\":{\"r\":255,\"g\":0,\"b\":128}}",
   color |-> "{\"color\":{\"r\":255,\"g\":0,\"b\":128},\"intensity\":200,\"duration\":10}",
   contour |-> "{\"word\":[{\"duration\":100,\"frame_nodes\":[{\"node_index\":[1,2],\"intensity\":50}]},{\"duration\":20,\"frame_nodes\":[]}]}",
   list |-> "[{\"duration\":20,\"frame_nodes\":[]}]",
   ordered |-> "{\"word\":[{\"order\":0,\"duration\":30,\"frame_nodes\":[{\"node_index\":3,\"intensity\":90}]}]}",
   unrecognized |-> "{\"foo\":\"bar\"}",
   number |-> "7",
   set_output |-> "{\"cmd\":\"set_output\",\"value\":\"skinetic\"}",
   set_mode |-> "{\"cmd\":\"set_mode\",\"value\":\"color\"}",
   set_mode_vendor |-> "{\"cmd\":\"set_mode\",\"value\":\"vendor\"}",
   get_mode |-> "{\"cmd\":\"get_mode\"}",
   get_output |-> "{\"cmd\":\"get_output\",\"color\":{\"r\":255,\"g\":0,\"b\":128}}",
   bad_cmd |-> "{\"cmd\":\"set_output\",\"value\":\"usb\"}"]

JsonTexts ==
  { Texts.envelope, Texts.envelope_color, Texts.envelope_word, Texts.type_color, Texts.color,
    Texts.contour, Texts.list, Texts.ordered, Texts.unrecognized, Texts.set_output, Texts.set_mode,
    Texts.set_mode_vendor, Texts.get_mode, Texts.get_output, Texts.bad_cmd }

RawText(text) == [enc |-> "text", utf8 |-> TRUE, body |-> text]
RawBytes(text) == [enc |-> "bytes", utf8 |-> TRUE, body |-> text]
RawBadBytes == [enc |-> "bytes", utf8 |-> FALSE, body |-> ""]
RawNone == [enc |-> "none", utf8 |-> TRUE, body |-> ""]

RawMsgs ==
  { RawNone, RawBadBytes, RawBytes(Texts.ping), RawBytes(Texts.contour) }
  \cup { RawText(x) : x \in JsonTexts \cup {Texts.ping, Texts.garbage, Texts.deep} }

\* variant: a bytes message is never decoded
Decode_TextOnly(raw) ==
  IF raw.enc = "bytes" THEN [err |-> TRUE, text |-> ""]
                       ELSE [err |-> FALSE, text |-> raw.body]

\* raw.decode("utf-8") for bytes; text is taken as it is
Decode(raw) ==
  IF raw.enc = "bytes"
    THEN IF raw.utf8 THEN [err |-> FALSE, text |-> raw.body]
                     ELSE [err |-> TRUE, text |-> ""]
    ELSE [err |-> FALSE, text |-> raw.body]

\* json.loads(text): the value, json.JSONDecodeError, or another exception
\* (RecursionError on nesting deeper than the interpreter's recursion limit)
JsonLoads(text) ==
  CASE text = Texts.envelope -> [res |-> "ok", payload |-> P_envelope]
    [] text = Texts.envelope_color -> [res |-> "ok", payload |-> P_envelope_color]
    [] text = Texts.envelope_word -> [res |-> "ok", payload |-> P_envelope_word]
    [] text = Texts.type_color -> [res |-> "ok", payload |-> P_type_color]
    [] text = Texts.color -> [res |-> "ok", payload |-> P_color]
    [] text = Texts.contour -> [res |-> "ok", payload |-> P_contour]
    [] text = Texts.list -> [res |-> "ok", payload |-> P_list]
    [] text = Texts.ordered -> [res |-> "ok", payload |-> P_ordered]
    [] text = Texts.unrecognized -> [res |-> "ok", payload |-> P_unrecognized]
    [] text = Texts.set_output -> [res |-> "ok", payload |-> P_set_output]
    [] text = Texts.set_mode -> [res |-> "ok", payload |-> P_set_mode]
    [] text = Texts.set_mode_vendor -> [res |-> "ok", payload |-> P_set_mode_vendor]
    [] text = Texts.get_mode -> [res |-> "ok", payload |-> P_get_mode]
    [] text = Texts.get_output -> [res |-> "ok", payload |-> P_get_output]
    [] text = Texts.bad_cmd -> [res |-> "ok", payload |-> P_bad_cmd]
    [] text = Texts.number -> [res |-> "ok", payload |-> VInt(7)]
    [] text = Texts.deep -> [res |-> "RecursionError", payload |-> VInt(0)]
    [] OTHER -> [res |-> "JSONDecodeError", payload |-> VInt(0)]

(***************************************************************************)
(* Classification of a decoded payload                                     *)
(***************************************************************************)
AUTO == "auto"
COLOR == "color"
CONTOUR == "contour"
NoMode == "None"

\* variant: an envelope is a dict with the keys "type" and "message" only
IsServerEnvelope_Exact(payload) ==
  /\ IsDict(payload) /\ HasKey(payload, "type") /\ HasKey(payload, "message")
  /\ Len(payload.pairs) = 2

\* isinstance(payload, dict) and "type" in payload and "message" in payload
IsServerEnvelope(payload) ==
  IsDict(payload) /\ HasKey(payload, "type") /\ HasKey(payload, "message")

\* isinstance(payload, dict) and "cmd" in payload
IsCommand(payload) == IsDict(payload) /\ HasKey(payload, "cmd")

\* any(isinstance(x, dict) and "frame_nodes" in x for x in items)
AnyFrame(items) ==
  \E i \in 1..Len(items) : IsDict(items[i]) /\ HasKey(items[i], "frame_nodes")

detect_mode(payload) ==
  IF IsDict(payload) /\ HasKey(payload, "color") THEN COLOR
  ELSE IF IsDict(payload) /\
          \E i \in 1..Len(payload.pairs) :
            LET v == payload.pairs[i].v IN
              \/ IsDict(v) /\ HasKey(v, "frame_nodes")
              \/ IsList(v) /\ AnyFrame(v.items)
    THEN CONTOUR
  ELSE IF IsList(payload) /\ AnyFrame(payload.items) THEN CONTOUR
  ELSE NoMode

(***************************************************************************)
(* Converters for the serial channel.  A command stream is a sequence of   *)
(* str items (one actuate command "[L,<idx>:<val>]") and int items (a      *)
(* pause in ms).                                                           *)
(***************************************************************************)
AStr(idx, val) == [kind |-> "str", idx |-> idx, val |-> val]
AInt(n) == [kind |-> "int", idx |-> 0, val |-> n]

\* strings that int() accepts, and their values
NumericStrings == {"0", "7"}
IntOfString(s) == IF s = "7" THEN 7 ELSE 0

\* whether int(x) succeeds, and its value
IntParses(v) == v.t = "int" \/ (v.t = "str" /\ v.s \in NumericStrings)
IntValue(v) == IF v.t = "int" THEN v.n ELSE IntOfString(v.s)

\* _to_int(x, default)
ToInt(v, default) == IF IntParses(v) THEN IntValue(v) ELSE default

\* Python truthiness of a JSON value
Falsy(v) ==
  \/ v.t = "int" /\ v.n = 0
  \/ v.t = "str" /\ v.s = ""
  \/ v.t = "list" /\ v.items = <<>>
  \/ v.t = "dict" /\ v.pairs = <<>>

EmptyDict == VDict(<<>>)
EmptyList == VList(<<>>)

\* variant: the channel value is not clamped
Scale_NoClamp(chan, intensity) ==
  LET i == Max(0, Min(255, intensity))
  IN (2 * chan * i + 255) \div 510

\* scale(chan) = int(round((clamp(chan)/255.0) * clamp(intensity))); the
\* product is never half-way between two integers, so rounding is to nearest
Scale(chan, intensity) ==
  LET v == Max(0, Min(255, chan))
      i == Max(0, Min(255, intensity))
  IN (2 * v * i + 255) \div 510

\* ColorToSerial(payload).data, or the exception its constructor raises
ColorToSerial(p) ==
  IF ~IsDict(p) THEN [ok |-> FALSE, data |-> <<>>]
  ELSE
    LET c0 == Get(p, "color", EmptyDict)
        color == IF Falsy(c0) THEN EmptyDict ELSE c0
    IN IF ~IsDict(color) THEN [ok |-> FALSE, data |-> <<>>]
       ELSE
         LET r == ToInt(Get(color, "r", VInt(0)), 0)
             g == ToInt(Get(color, "g", VInt(0)), 0)
             b == ToInt(Get(color, "b", VInt(0)), 0)
             intensity == ToInt(Get(p, "intensity", VInt(255)), 255)
             dur == ToInt(Get(p, "duration", VInt(160)), 160)
         IN [ok |-> TRUE,
             data |-> << AStr(9, Scale(r, intensity)), AStr(6, Scale(g, intensity)),
                         AStr(4, Scale(b, intensity)), AInt(Max(0, dur)) >>]

\* _as_list(x)
AsList(v) == IF IsList(v) THEN v.items ELSE <<v>>

\* variant: the indices that parse take the intensities in turn, so an
\* index behind a dropped one gets the intensity of the dropped one
EmitIdxs_Packed(idxs, vals, k) ==
  LET good == SelectSeq(SubSeq(idxs, k, Len(idxs)), IntParses)
  IN [m \in 1..Len(good) |->
        AStr(IntValue(good[m]),
             ToInt(IF k + m - 1 <= Len(vals) THEN vals[k + m - 1] ELSE VInt(0), 0))]

\* the loop over enumerate(idxs) of _parse_frames, from position k on
RECURSIVE EmitIdxs(_, _, _)
EmitIdxs(idxs, vals, k) ==
  IF k > Len(idxs) THEN <<>>
  ELSE
    LET here ==
          IF IntParses(idxs[k])
            THEN << AStr(IntValue(idxs[k]),
                         ToInt(IF k <= Len(vals) THEN vals[k] ELSE VInt(0), 0)) >>
            ELSE <<>>
    IN here \o EmitIdxs(idxs, vals, k + 1)

\* variant: a single intensity is not repeated for the other indices
RECURSIVE EmitNodes_NoRepeat(_, _)
EmitNodes_NoRepeat(fns, j) ==
  IF j > Len(fns) THEN <<>>
  ELSE
    LET fn == fns[j]
        idxs == AsList(Get(fn, "node_index", EmptyList))
        vals == AsList(Get(fn, "intensity", EmptyList))
        here == IF IsDict(fn) THEN EmitIdxs(idxs, vals, 1) ELSE <<>>
    IN here \o EmitNodes_NoRepeat(fns, j + 1)

\* the loop over enumerate(fns) of _parse_frames, from position j on
RECURSIVE EmitNodes(_, _)
EmitNodes(fns, j) ==
  IF j > Len(fns) THEN <<>>
  ELSE
    LET fn == fns[j]
        idxs == AsList(Get(fn, "node_index", EmptyList))
        vals0 == AsList(Get(fn, "intensity", EmptyList))
        vals == IF Len(vals0) = 1 /\ Len(idxs) > 1
                  THEN [x \in 1..Len(idxs) |-> vals0[1]]
                  ELSE vals0
        here == IF IsDict(fn) THEN EmitIdxs(idxs, vals, 1) ELSE <<>>
    IN here \o EmitNodes(fns, j + 1)

\* variant: a frame without nodes adds nothing to the stream
RECURSIVE ParseFrames_SkipEmpty(_, _)
ParseFrames_SkipEmpty(frames, i) ==
  IF i > Len(frames) THEN <<>>
  ELSE
    LET frame == frames[i]
        here ==
          IF ~IsDict(frame)
            THEN IF IsInt(frame) THEN << AInt(frame.n) >> ELSE <<>>
            ELSE
              LET dur == ToInt(Get(frame, "duration", VInt(0)), 0)
                  f0 == Get(frame, "frame_nodes", EmptyList)
                  fns == IF IsDict(f0) THEN <<f0>>
                         ELSE IF IsList(f0) THEN f0.items ELSE <<>>
              IN IF fns = <<>> THEN <<>> ELSE EmitNodes(fns, 1) \o << AInt(dur) >>
    IN here \o ParseFrames_SkipEmpty(frames, i + 1)

\* ContourToSerial._parse_frames(frames, label), from position i on
RECURSIVE ParseFrames(_, _)
ParseFrames(frames, i) ==
  IF i > Len(frames) THEN <<>>
  ELSE
    LET frame == frames[i]
        here ==
          IF ~IsDict(frame)
            THEN IF IsInt(frame) THEN << AInt(frame.n) >> ELSE <<>>
            ELSE
              LET dur == ToInt(Get(frame, "duration", VInt(0)), 0)
                  f0 == Get(frame, "frame_nodes", EmptyList)
                  fns == IF IsDict(f0) THEN <<f0>>
                         ELSE IF IsList(f0) THEN f0.items ELSE <<>>
              IN EmitNodes(fns, 1) \o << AInt(dur) >>
    IN here \o ParseFrames(frames, i + 1)

\* the loop over s.items() of ContourToSerial._parse_sentence, from pair i on
RECURSIVE ParseWords(_, _)
ParseWords(pairs, i) ==
  IF i > Len(pairs) THEN <<>>
  ELSE
    LET val == pairs[i].v
        here ==
          IF IsDict(val) THEN ParseFrames(<<val>>, 1)
          ELSE IF IsList(val) THEN ParseFrames(val.items, 1)
          ELSE IF IsInt(val) THEN << AInt(val.n) >>
          ELSE <<>>
    IN here \o ParseWords(pairs, i + 1)

\* ContourToSerial(payload).data; the constructor raises for no payload
ContourToSerial(s) ==
  [ok |-> TRUE,
   data |-> IF IsServerEnvelope(s) THEN <<>>
            ELSE IF IsDict(s) THEN ParseWords(s.pairs, 1)
            ELSE IF IsList(s) THEN ParseFrames(s.items, 1)
            ELSE IF IsInt(s) THEN << AInt(s.n) >>
            ELSE <<>>]

(***************************************************************************)
(* The serial wire format: the bytes of each write call.  A byte string is *)
(* a sequence of one-character strings.                                    *)
(***************************************************************************)
\* str(n) of a natural number
RECURSIVE Dec(_)
Dec(n) ==
  LET digit == << "0", "1", "2", "3", "4", "5", "6", "7", "8", "9" >>[(n % 10) + 1]
  IN IF n < 10 THEN << digit >> ELSE Dec(n \div 10) \o << digit >>

\* str(n) of an integer
StrOfInt(n) == IF n < 0 THEN << "-" >> \o Dec(-n) ELSE Dec(n)

\* f"[L,{idx_i}:{val}]", the text of a str item of the stream
CommandText(item) ==
  << "[", "L", "," >> \o StrOfInt(item.idx) \o << ":" >> \o StrOfInt(item.val) \o << "]" >>

\* "[L,all:0]"
StopText == << "[", "L", ",", "a", "l", "l", ":", "0", "]" >>

\* max_packet / max_packet_size
MaxPacket == 64

\* the chunks payload[i:i + max_packet] for i in range(0, len(payload), max_packet)
RECURSIVE Chunks(_)
Chunks(bytes) ==
  IF bytes = <<>> THEN <<>>
  ELSE << SubSeq(bytes, 1, Min(MaxPacket, Len(bytes))) >>
       \o Chunks(SubSeq(bytes, MaxPacket + 1, Len(bytes)))

\* the write calls of SerialSender.send(items) from item i on, when every
\* write succeeds: the chunks of item.encode("utf-8"); "[L,all:0]" for a Pause
RECURSIVE SendWrites(_, _)
SendWrites(items, i) ==
  IF i > Len(items) THEN <<>>
  ELSE (IF items[i].kind = "str" THEN Chunks(CommandText(items[i]))
                                 ELSE << StopText >>)
       \o SendWrites(items, i + 1)

\* the write calls of send_serial_data(dev, data, logger) from item i on, for
\* the terminator stored on the device: the chunks of (item + term); the
\* stop command ("[L,all:0]" + term) in one write
RECURSIVE SendSerialDataWrites(_, _, _)
SendSerialDataWrites(items, term, i) ==
  IF i > Len(items) THEN <<>>
  ELSE (IF items[i].kind = "str" THEN Chunks(CommandText(items[i]) \o term)
                                 ELSE << StopText \o term >>)
       \o SendSerialDataWrites(items, term, i + 1)

(***************************************************************************)
(* The connection URL.  Texts are strings; SubSeq, Len and \o act on their  *)
(* characters.                                                             *)
(***************************************************************************)
\* s.startswith(prefix)
StartsWith(s, prefix) ==
  Len(s) >= Len(prefix) /\ SubSeq(s, 1, Len(prefix)) = prefix

\* s.endswith(suffix)
EndsWith(s, suffix) ==
  Len(s) >= Len(suffix) /\ SubSeq(s, Len(s) - Len(suffix) + 1, Len(s)) = suffix

\* s.rstrip("/")
RECURSIVE RStrip(_)
RStrip(s) ==
  IF Len(s) > 0 /\ SubSeq(s, Len(s), Len(s)) = "/"
    THEN RStrip(SubSeq(s, 1, Len(s) - 1)) ELSE s

\* s.strip(): leading and trailing blanks removed
RECURSIVE Strip(_)
Strip(s) ==
  IF Len(s) > 0 /\ SubSeq(s, 1, 1) = " " THEN Strip(SubSeq(s, 2, Len(s)))
  ELSE IF Len(s) > 0 /\ SubSeq(s, Len(s), Len(s)) = " "
    THEN Strip(SubSeq(s, 1, Len(s) - 1))
  ELSE s

\* s.replace(old, new): every occurrence, from the left, without overlap
RECURSIVE Replace(_, _, _)
Replace(s, old, new) ==
  IF Len(s) < Len(old) THEN s
  ELSE IF SubSeq(s, 1, Len(old)) = old
    THEN new \o Replace(SubSeq(s, Len(old) + 1, Len(s)), old, new)
  ELSE SubSeq(s, 1, 1) \o Replace(SubSeq(s, 2, Len(s)), old, new)

\* picture2notes_client.sanitize_ws_url(base, client_id)
sanitize_ws_url(base, client_id) ==
  LET b0 == RStrip(base)
      b1 == IF StartsWith(b0, "ws://") \/ StartsWith(b0, "wss://") THEN b0
            ELSE LET r == Replace(Replace(b0, "http://", "ws://"), "https://", "wss://")
                 IN IF StartsWith(r, "ws://") \/ StartsWith(r, "wss://") THEN r
                    ELSE "wss://" \o r
      suffix == IF client_id # "" THEN "/ws/listen/" \o client_id ELSE "/ws/listen/"
  IN IF EndsWith(b1, suffix) THEN b1 ELSE b1 \o suffix

\* exp_client.sanitize_websocket_url(url, client_id)
sanitize_websocket_url(url, client_id) ==
  LET u0 == RStrip(Strip(url))
      u1 == IF StartsWith(u0, "ws://") \/ StartsWith(u0, "wss://") THEN u0
            ELSE LET r == Replace(Replace(u0, "http://", "ws://"), "https://", "wss://")
                 IN IF StartsWith(r, "ws://") \/ StartsWith(r, "wss://") THEN r
                    ELSE "wss://" \o r
      suffix == IF client_id # "" THEN "/ws/listen/" \o client_id ELSE "/ws/listen/"
  IN IF EndsWith(u1, suffix) THEN u1 ELSE u1 \o suffix

(***************************************************************************)
(* Conversion for the vendor channel: whether it returns or raises         *)
(***************************************************************************)
\* a frame_nodes entry that HDFrameConverter._parse_frames and the
\* FrameEvent validation accept
NodeOk(fn) ==
  /\ IsDict(fn) /\ HasKey(fn, "node_index") /\ HasKey(fn, "intensity")
  /\ IsInt(Get(fn, "node_index", EmptyList))
  /\ IsInt(Get(fn, "intensity", EmptyList))

\* a frame that HDFrameConverter._parse_frames accepts
FrameOk(frame) ==
  /\ IsDict(frame) /\ HasKey(frame, "frame_nodes") /\ HasKey(frame, "duration")
  /\ IntParses(Get(frame, "duration", EmptyList))
  /\ LET fns == Get(frame, "frame_nodes", EmptyList) IN
       /\ IsList(fns)
       /\ \A j \in 1..Len(fns.items) : NodeOk(fns.items[j])
       /\ fns.items # <<>> =>
            HasKey(frame, "order") /\ IsInt(Get(frame, "order", EmptyList))

\* HDFrameConverter(payload) followed by HapticProcessorInput(frame_list=...)
\* returns (TRUE) or raises (FALSE)
HDConvertOk(payload) ==
  \/ IsList(payload) /\ payload.items = <<>>
  \/ /\ IsDict(payload)
     /\ \A i \in 1..Len(payload.pairs) :
          LET word == payload.pairs[i].v IN
            \/ /\ IsList(word)
               /\ \A f \in 1..Len(word.items) : FrameOk(word.items[f])
            \/ word.t = "str" /\ word.s = ""
            \/ word.t = "dict" /\ word.pairs = <<>>

\* the part of send_color before the device is used returns or raises
ColorConvertOk(payload) ==
  /\ IsDict(payload) \/ Falsy(payload)
  /\ LET p == IF Falsy(payload) THEN EmptyDict ELSE payload
         c0 == Get(p, "color", EmptyDict)
     IN /\ IsDict(c0) \/ Falsy(c0)
        /\ IntParses(Get(p, "intensity", VInt(255)))
        /\ IntParses(Get(p, "duration", VInt(160)))

(***************************************************************************)
(* Conversion for the vendor channel: the events of a payload and the      *)
(* KeyFrames HapticProcessorInput.format makes of them                     *)
(***************************************************************************)
\* FrameEvent(order, node_index, intensity, duration)
FrameEvent(order, node_index, intensity, duration) ==
  [order |-> order, node_index |-> node_index, intensity |-> intensity,
   duration |-> duration]

\* the loop over frame['frame_nodes'] of FrameConverter._parse_frames, from
\* node j on: one event per node, with the frame's order and duration
RECURSIVE NodeEvents(_, _, _)
NodeEvents(frame, fns, j) ==
  IF j > Len(fns) THEN <<>>
  ELSE << FrameEvent(Get(frame, "order", VInt(0)).n,
                     Get(fns[j], "node_index", VInt(0)).n,
                     Get(fns[j], "intensity", VInt(0)).n,
                     IntValue(Get(frame, "duration", VInt(0)))) >>
       \o NodeEvents(frame, fns, j + 1)

\* the loop over the frames of a word of FrameConverter._parse_frames
RECURSIVE FrameEvents(_, _)
FrameEvents(frames, i) ==
  IF i > Len(frames) THEN <<>>
  ELSE NodeEvents(frames[i], Get(frames[i], "frame_nodes", EmptyList).items, 1)
       \o FrameEvents(frames, i + 1)

\* the loop over the words of FrameConverter._parse_sentence
RECURSIVE WordEvents(_, _)
WordEvents(pairs, i) ==
  IF i > Len(pairs) THEN <<>>
  ELSE (IF IsList(pairs[i].v) THEN FrameEvents(pairs[i].v.items, 1) ELSE <<>>)
       \o WordEvents(pairs, i + 1)

\* FrameConverter(payload)._skinetic, for a payload the converter accepts
HDEvents(payload) ==
  IF IsDict(payload) THEN WordEvents(payload.pairs, 1) ELSE <<>>

\* variant: the channels are clamped but not scaled by the intensity
ColorEvents_Unscaled(payload) ==
  LET p == IF Falsy(payload) THEN EmptyDict ELSE payload
      c0 == Get(p, "color", EmptyDict)
      color == IF Falsy(c0) THEN EmptyDict ELSE c0
      duration == IntValue(Get(p, "duration", VInt(160)))
  IN << FrameEvent(0, 9, Scale(ToInt(Get(color, "r", VInt(0)), 0), 255), duration),
        FrameEvent(1, 6, Scale(ToInt(Get(color, "g", VInt(0)), 0), 255), duration),
        FrameEvent(2, 4, Scale(ToInt(Get(color, "b", VInt(0)), 0), 255), duration) >>

\* the frame list send_color builds, for a payload it accepts
ColorEvents(payload) ==
  LET p == IF Falsy(payload) THEN EmptyDict ELSE payload
      c0 == Get(p, "color", EmptyDict)
      color == IF Falsy(c0) THEN EmptyDict ELSE c0
      intensity == IntValue(Get(p, "intensity", VInt(255)))
      duration == IntValue(Get(p, "duration", VInt(160)))
  IN << FrameEvent(0, 9, Scale(ToInt(Get(color, "r", VInt(0)), 0), intensity), duration),
        FrameEvent(1, 6, Scale(ToInt(Get(color, "g", VInt(0)), 0), intensity), duration),
        FrameEvent(2, 4, Scale(ToInt(Get(color, "b", VInt(0)), 0), intensity), duration) >>

\* variant: an event goes before the events of the same order
RECURSIVE InsertByOrder_Before(_, _)
InsertByOrder_Before(sorted, ev) ==
  IF sorted = <<>> THEN << ev >>
  ELSE IF Head(sorted).order < ev.order
    THEN << Head(sorted) >> \o InsertByOrder_Before(Tail(sorted), ev)
  ELSE << ev >> \o sorted

\* one step of sorted(frame_list, key=order): the event goes behind every
\* event whose order is not greater (Python's sort is stable)
RECURSIVE InsertByOrder(_, _)
InsertByOrder(sorted, ev) ==
  IF sorted = <<>> THEN << ev >>
  ELSE IF Head(sorted).order <= ev.order
    THEN << Head(sorted) >> \o InsertByOrder(Tail(sorted), ev)
  ELSE << ev >> \o sorted

\* sorted(self.frame_list, key=lambda e: e.order), the first k events
RECURSIVE SortedByOrder(_, _)
SortedByOrder(evs, k) ==
  IF k = 0 THEN <<>> ELSE InsertByOrder(SortedByOrder(evs, k - 1), evs[k])

\* the length of SpatKeyFrame.weights
NumWeights == 20

\* variant: the intensity is stored as it comes
Clamp255_Raw(v) == v

\* max(0, min(255, int(v)))
Clamp255(v) == Max(0, Min(255, v))

\* variant: only the upper bound of the index is tested, and a negative
\* index counts from the end of the list as Python's does
WeightIndex_Upper(node_index) ==
  IF node_index >= NumWeights THEN 0
  ELSE IF node_index >= 0 THEN node_index + 1
  ELSE IF node_index >= -NumWeights THEN NumWeights + node_index + 1
  ELSE 0

\* the position (from 1) of the weight an event sets, 0 when it sets none:
\* `if 0 <= ev.node_index < 20`
WeightIndex(node_index) ==
  IF 0 <= node_index /\ node_index < NumWeights THEN node_index + 1 ELSE 0

\* weights = [0] * 20; weights[ev.node_index] = val
Weights(ev) ==
  [k \in 1..NumWeights |->
     IF k = WeightIndex(ev.node_index) THEN Clamp255(ev.intensity) ELSE 0]

\* SpatKeyFrame(annotation="node=..,intensity=..,dur=..", timestamp=0.0, weights)
SpatKeyFrame(ev) ==
  [annotation |-> [node |-> ev.node_index, intensity |-> ev.intensity,
                   dur |-> ev.duration],
   timestamp |-> 0,
   weights |-> Weights(ev)]

\* HapticProcessorInput(frame_list=evs).format(): the spatKeyframes of the
\* one sample of the one track
Format(evs) ==
  LET sorted == SortedByOrder(evs, Len(evs))
  IN [k \in 1..Len(sorted) |-> SpatKeyFrame(sorted[k])]

(***************************************************************************)
(* The stream loop: websocket_loop(cfg, logger)                            *)
(***************************************************************************)
VARIABLES
  cfg,              \* the configuration the loop was started with
  pc,               \* where the loop is
  backoff_s,        \* seconds to wait before the next connect attempt
  output_choice,    \* "serial" | "skinetic" | "both" | ...
  mode,             \* "auto" | "color" | "contour"
  serial_sender,    \* SerialSender: its port and its device handle
  skinetic_sender,  \* SkineticSenderSPN (or None) and its device handle
  msg,              \* the message being dispatched
  data,             \* items of the command stream not yet sent to serial
  oplog,            \* history: channel operations made for the last message
  waits,            \* history: waits slept since the last Connected (or start)
  failsBefore,      \* history: failed attempts before the last connection
                    \* (-1: no connection was established yet)
  msgCount,         \* history: number of messages received
  last,             \* history: what the handling of the last message did
  lastExit,         \* history: the exception that ended the try block
  convCall          \* a converter call: its input and what it returned

vars ==
  << cfg, pc, backoff_s, output_choice, mode, serial_sender, skinetic_sender,
     msg, data, oplog, waits, failsBefore, msgCount, last, lastExit, convCall >>

\* no converter call is under study
NoConv == [fn |-> "none", input |-> VInt(0), ok |-> TRUE, out |-> <<>>]

\* configurations the loop is started with: reconnect_initial,
\* reconnect_max, output, serial.port
Cfg(ri, rm, o, sp) ==
  [reconnect_initial |-> ri, reconnect_max |-> rm, output |-> o, serial_port |-> sp]

Configs ==
  { Cfg(2, 30, "serial+skinetic", "/dev/ttyACM0"),
    Cfg(2, 30, "both", "/dev/ttyACM0"),
    Cfg(2, 30, "skinetic", "/dev/ttyACM0"),
    Cfg(3, 10, "serial", ""),
    Cfg(40, 30, "serial", "") }

\* `"serial" in output_choice` and `"skinetic" in output_choice` (substring)
HasSerial(o) == o \in { "serial", "serial+skinetic" }
HasSkinetic(o) == o \in { "skinetic", "serial+skinetic" }

NoMsg == [id |-> 0, payload |-> VInt(0), effective_mode |-> NoMode]
NoLast ==
  [id |-> 0, raw |-> [enc |-> "none", utf8 |-> TRUE, body |-> ""],
   outcome |-> "none", parsed |-> FALSE, resolved |-> FALSE,
   converted |-> FALSE, sendCalls |-> <<>>, sent |-> <<>>,
   tried |-> {}, pauses |-> 0, vendor |-> "", choice |-> "", observed |-> "",
   prevChoice |-> "", prevObserved |-> ""]

Init ==
  /\ cfg \in Configs
  /\ backoff_s = cfg.reconnect_initial
  /\ output_choice = cfg.output
  /\ serial_sender =
       [port |-> IF HasSerial(cfg.output) THEN cfg.serial_port ELSE "", dev |-> "None"]
  /\ skinetic_sender = [present |-> HasSkinetic(cfg.output), dev |-> FALSE]
  /\ mode = AUTO
  /\ pc = "connect"
  /\ msg = NoMsg
  /\ data = <<>>
  /\ oplog = <<>>
  /\ waits = <<>>
  /\ failsBefore = -1
  /\ msgCount = 0
  /\ last = NoLast
  /\ lastExit = "none"
  /\ convCall = NoConv

\* the states of the loop as the design names them
Connecting == pc = "connect"
Connected == pc \in { "recv", "serial", "skinetic" }
Disconnected == pc = "sleep"
Shutdown == pc = "shutdown"
Terminated == pc \in { "shutdown", "escaped" }

\* variant: an OSError is not retried, the loop stands still
ExceptTarget_Stop(exc) ==
  CASE exc = "OSError" -> "stopped"
    [] exc = "KeyboardInterrupt" -> "shutdown"
    [] OTHER -> "sleep"

\* variant: an unexpected exception ends the loop
ExceptTarget_Fatal(exc) ==
  CASE exc \in { "ConnectionClosed", "WebSocketException" } -> "sleep"
    [] exc \in { "ConnectionRefusedError", "OSError" } -> "sleep"
    [] OTHER -> "shutdown"

\* the except clauses of the loop: where an exception raised inside the
\* try block leads
ExceptTarget(exc) ==
  CASE exc \in { "ConnectionClosed", "WebSocketException" } -> "sleep"
    [] exc \in { "ConnectionRefusedError", "OSError" } -> "sleep"
    [] exc = "KeyboardInterrupt" -> "shutdown"
    [] OTHER -> "sleep"

\* variant: the ceiling is applied before doubling
NextBackoff_CapFirst(b, max_backoff_s) == Min(max_backoff_s, b) * 2

\* backoff_s = min(max_backoff_s, backoff_s * 2)
NextBackoff(b, max_backoff_s) == Min(max_backoff_s, b * 2)

\* variant: the backoff is not reset on success
ResetBackoff_Keep(b, initial) == b

\* backoff_s on entering Connected
ResetBackoff(b, initial) == initial

Remember(ws, w) == IF Len(ws) < MaxWaits THEN Append(ws, w) ELSE ws

\* variant: the value is assigned again for every connection
AtConnect_Reinit(value, configured) == configured

\* mode and output_choice on entering Connected: they are assigned once,
\* before `while True`, and nothing inside the loop but a command assigns them
AtConnect(value, configured) == value

\* connect(ws_url, ...) succeeds: "Connected.", the backoff is reset
ConnectOk ==
  /\ pc = "connect"
  /\ pc' = "recv"
  /\ backoff_s' = ResetBackoff(backoff_s, cfg.reconnect_initial)
  /\ output_choice' = AtConnect(output_choice, cfg.output)
  /\ mode' = AtConnect(mode, AUTO)
  /\ failsBefore' = Min(Len(waits), MaxFailsSeen)
  /\ waits' = <<>>
  /\ UNCHANGED << convCall, cfg, serial_sender, skinetic_sender, msg,
                  data, oplog, msgCount, last, lastExit >>

ConnectErrors == { "WebSocketException", "ConnectionRefusedError", "OSError", "Exception" }

\* connect(ws_url, ...) raises
ConnectFail(exc) ==
  /\ pc = "connect"
  /\ pc' = ExceptTarget(exc)
  /\ lastExit' = exc
  /\ UNCHANGED << convCall, cfg, backoff_s, output_choice, mode, serial_sender,
                  skinetic_sender, msg, data, oplog, waits,
                  failsBefore, msgCount, last >>

RecvErrors == { "ConnectionClosed", "OSError", "Exception", "end" }

\* `for raw in ws` raises, or ends because the peer closed the connection
RecvClosed(exc) ==
  /\ pc = "recv"
  /\ pc' = IF exc = "end" THEN "sleep" ELSE ExceptTarget(exc)
  /\ lastExit' = exc
  /\ last' = NoLast
  /\ oplog' = <<>>
  /\ UNCHANGED << convCall, cfg, backoff_s, output_choice, mode, serial_sender,
                  skinetic_sender, msg, data, waits, failsBefore, msgCount >>

\* time.sleep(backoff_s); backoff_s = min(max_backoff_s, backoff_s * 2)
Sleep ==
  /\ pc = "sleep"
  /\ pc' = "connect"
  /\ waits' = Remember(waits, backoff_s)
  /\ backoff_s' = NextBackoff(backoff_s, cfg.reconnect_max)
  /\ lastExit' = "none"
  /\ last' = NoLast
  /\ UNCHANGED << convCall, cfg, output_choice, mode, serial_sender, skinetic_sender, msg,
                  data, oplog, failsBefore, msgCount >>

\* KeyboardInterrupt: inside the try block the loop's except clause breaks
\* out of the loop; during time.sleep it leaves websocket_loop unhandled
Interrupt ==
  /\ pc \in { "connect", "recv", "serial", "skinetic", "sleep" }
  /\ pc' = IF pc = "sleep" THEN "escaped" ELSE ExceptTarget("KeyboardInterrupt")
  /\ lastExit' = "KeyboardInterrupt"
  /\ UNCHANGED << convCall, cfg, backoff_s, output_choice, mode, serial_sender,
                  skinetic_sender, msg, data, oplog, waits,
                  failsBefore, msgCount, last >>

(***************************************************************************)
(* Handling of one received message                                        *)
(***************************************************************************)
Pong == [t |-> "__pong__", k |-> "", v |-> ""]
Ack(k, v) == [t |-> "ok", k |-> k, v |-> v]
Info(k, v) == [t |-> "info", k |-> k, v |-> v]

H(outcome, parsed, resolved, payload, em) ==
  [outcome |-> outcome, parsed |-> parsed, resolved |-> resolved,
   payload |-> payload, effective_mode |-> em]

\* the path one message takes through the body of `for raw in ws`, up to
\* the point where its dispatch starts
Handle(raw, m) ==
  IF raw.enc = "none" THEN H("none", FALSE, FALSE, VInt(0), NoMode)
  ELSE
    LET d == Decode(raw) IN
    IF d.err THEN H("undecodable", FALSE, FALSE, VInt(0), NoMode)
    ELSE IF d.text = "__ping__" THEN H("ping", FALSE, FALSE, VInt(0), NoMode)
    ELSE
      LET j == JsonLoads(d.text) IN
      IF j.res = "JSONDecodeError" THEN H("nonjson", TRUE, FALSE, VInt(0), NoMode)
      ELSE IF j.res # "ok" THEN H("parse_error", TRUE, FALSE, VInt(0), NoMode)
      ELSE IF IsServerEnvelope(j.payload)
        THEN H("envelope", TRUE, FALSE, j.payload, NoMode)
      ELSE IF IsCommand(j.payload)
        THEN H("command", TRUE, FALSE, j.payload, NoMode)
      ELSE
        LET inferred == detect_mode(j.payload) IN
        IF m = AUTO /\ inferred = NoMode
          THEN H("noinfer", TRUE, TRUE, j.payload, NoMode)
          ELSE H("dispatch", TRUE, TRUE, j.payload,
                 IF m = AUTO THEN inferred ELSE m)

LastOf(raw, h, id, converted, calls, sent) ==
  [id |-> id, raw |-> raw, outcome |-> h.outcome, parsed |-> h.parsed,
   resolved |-> h.resolved, converted |-> converted, sendCalls |-> calls,
   sent |-> sent, tried |-> {}, pauses |-> 0, vendor |-> "", choice |-> "",
   observed |-> "", prevChoice |-> "", prevObserved |-> ""]

\* a message that is dropped: raw is None, undecodable bytes, not JSON, a
\* server envelope, or a payload whose mode AUTO cannot infer
RecvSkip(raw) ==
  /\ pc = "recv" /\ msgCount < MaxMsgs
  /\ LET h == Handle(raw, mode) IN
       /\ h.outcome \in { "none", "undecodable", "nonjson", "envelope", "noinfer" }
       /\ last' = LastOf(raw, h, msgCount + 1, FALSE, <<>>, <<>>)
  /\ msgCount' = msgCount + 1
  /\ oplog' = <<>>
  /\ UNCHANGED << convCall, cfg, pc, backoff_s, output_choice, mode, serial_sender,
                  skinetic_sender, msg, data, waits, failsBefore, lastExit >>

\* variant: a failed ws.send is not caught
AfterPong_Raise(sendOk) == IF sendOk THEN "recv" ELSE "sleep"

\* where the loop goes after the reply to a ping: an exception of
\* ws.send is caught and logged, then `continue`
AfterPong(sendOk) == "recv"

\* raw == "__ping__": ws.send("__pong__"), whose failure is only logged
RecvPing(raw, sendOk) ==
  /\ pc = "recv" /\ msgCount < MaxMsgs
  /\ pc' = AfterPong(sendOk)
  /\ LET h == Handle(raw, mode) IN
       /\ h.outcome = "ping"
       /\ last' = LastOf(raw, h, msgCount + 1, FALSE, <<Pong>>,
                         IF sendOk THEN <<Pong>> ELSE <<>>)
  /\ msgCount' = msgCount + 1
  /\ oplog' = <<>>
  /\ UNCHANGED << convCall, cfg, backoff_s, output_choice, mode, serial_sender,
                  skinetic_sender, msg, data, waits, failsBefore, lastExit >>

\* json.loads raises something other than json.JSONDecodeError: the
\* exception leaves the `with` block and reaches `except Exception`
RecvParseError(raw) ==
  /\ pc = "recv" /\ msgCount < MaxMsgs
  /\ LET h == Handle(raw, mode) IN
       /\ h.outcome = "parse_error"
       /\ last' = LastOf(raw, h, msgCount + 1, FALSE, <<>>, <<>>)
  /\ msgCount' = msgCount + 1
  /\ pc' = ExceptTarget("Exception")
  /\ lastExit' = "Exception"
  /\ oplog' = <<>>
  /\ UNCHANGED << convCall, cfg, backoff_s, output_choice, mode, serial_sender,
                  skinetic_sender, msg, data, waits, failsBefore >>

\* str(x).lower() of a JSON value
StrOf(v) == IF v.t = "str" THEN v.s ELSE "<not a string>"

\* variant: "usb" is taken as an output
OutputValues_WithUsb == { "serial", "skinetic", "both", "usb" }

OutputValues == { "serial", "skinetic", "both" }
\* variant: "vendor" is taken as a mode
ModeValues_WithVendor == { COLOR, CONTOUR, AUTO, "vendor" }

ModeValues == { COLOR, CONTOUR, AUTO }

\* the control commands: what they set and what they send
Command(payload, oc, m) ==
  LET cmd == StrOf(Get(payload, "cmd", VStr("")))
      value == StrOf(Get(payload, "value", VStr("")))
  IN CASE cmd = "set_output" /\ value \in OutputValues ->
            [output_choice |-> value, mode |-> m, calls |-> << Ack("output", value) >>]
       [] cmd = "get_output" ->
            [output_choice |-> oc, mode |-> m, calls |-> << Info("output", oc) >>]
       [] cmd = "set_mode" /\ value \in ModeValues ->
            [output_choice |-> oc, mode |-> value, calls |-> << Ack("mode", value) >>]
       [] cmd = "get_mode" ->
            [output_choice |-> oc, mode |-> m, calls |-> << Info("mode", m) >>]
       [] OTHER -> [output_choice |-> oc, mode |-> m, calls |-> <<>>]

\* a payload with a "cmd" key
RecvCommand(raw, sendOk) ==
  /\ pc = "recv" /\ msgCount < MaxMsgs
  /\ LET h == Handle(raw, mode) IN
       /\ h.outcome = "command"
       /\ LET c == Command(h.payload, output_choice, mode) IN
            /\ output_choice' = c.output_choice
            /\ mode' = c.mode
            /\ last' = LastOf(raw, h, msgCount + 1, FALSE, c.calls,
                              IF sendOk THEN c.calls ELSE <<>>)
  /\ msgCount' = msgCount + 1
  /\ oplog' = <<>>
  /\ UNCHANGED << convCall, cfg, pc, backoff_s, serial_sender, skinetic_sender, msg, data,
                  waits, failsBefore, lastExit >>

(***************************************************************************)
(* Dispatch to the device channels                                         *)
(***************************************************************************)
Op(ch, id, op, ok) == [ch |-> ch, msg |-> id, op |-> op, ok |-> ok, h |-> 0]

\* a call on the vendor device: load_pattern_json returns the handle h;
\* play_effect and unload_pattern are passed the handle h
VOp(id, op, ok, h) == [ch |-> "skinetic", msg |-> id, op |-> op, ok |-> ok, h |-> h]

\* the pattern ids load_pattern_json may return
PatternIds == { 1, 2 }

\* where the loop goes when the serial path of a message is over
AfterSerial(oc, sk) ==
  IF HasSkinetic(oc) /\ sk.present THEN "skinetic" ELSE "recv"

\* variant: send returns after its first item and leaves the rest
AfterItem_Return(rest, oc, sk) == AfterSerial(oc, sk)

\* where the loop goes after one item of SerialSender.send: send returns
\* only when the items are exhausted
AfterItem(rest, oc, sk) ==
  IF rest = <<>> THEN AfterSerial(oc, sk) ELSE "serial"

\* the number of int items (pauses) of a command stream
Pauses(stream) == Cardinality({ i \in 1..Len(stream) : stream[i].kind = "int" })

\* the serial path of a message up to the first item of SerialSender.send:
\* the conversion, the `if not self.port` guard and _ensure_open.  `tried`
\* tells whether send got past the guard, to the device
SerialStart(payload, em, oc, port, sender, openOk) ==
  IF ~(HasSerial(oc) /\ port # "")
    THEN [go |-> FALSE, converted |-> FALSE, tried |-> FALSE, pauses |-> 0,
          data |-> <<>>, sender |-> sender]
  ELSE
    LET conv == IF em = COLOR THEN ColorToSerial(payload) ELSE ContourToSerial(payload)
    IN IF ~conv.ok \/ sender.port = ""
         THEN [go |-> FALSE, converted |-> TRUE, tried |-> FALSE, pauses |-> 0,
               data |-> <<>>, sender |-> sender]
       ELSE IF sender.dev = "open"
         THEN [go |-> TRUE, converted |-> TRUE, tried |-> TRUE,
               pauses |-> Pauses(conv.data), data |-> conv.data, sender |-> sender]
       ELSE IF openOk
         THEN [go |-> TRUE, converted |-> TRUE, tried |-> TRUE,
               pauses |-> Pauses(conv.data), data |-> conv.data,
               sender |-> [sender EXCEPT !.dev = "open"]]
         ELSE [go |-> FALSE, converted |-> TRUE, tried |-> TRUE,
               pauses |-> Pauses(conv.data), data |-> <<>>, sender |-> sender]

\* a color or contour payload: the start of its dispatch
RecvDispatch(raw, openOk) ==
  /\ pc = "recv" /\ msgCount < MaxMsgs
  /\ LET h == Handle(raw, mode) IN
       /\ h.outcome = "dispatch"
       /\ LET st == SerialStart(h.payload, h.effective_mode, output_choice,
                                cfg.serial_port, serial_sender, openOk)
          IN /\ serial_sender' = st.sender
             /\ data' = IF st.go THEN st.data ELSE <<>>
             /\ pc' = IF st.go THEN AfterItem(st.data, output_choice, skinetic_sender)
                               ELSE AfterSerial(output_choice, skinetic_sender)
             /\ last' = [LastOf(raw, h, msgCount + 1, st.converted, <<>>, <<>>)
                            EXCEPT !.prevObserved = last.vendor,
                                   !.tried = IF st.tried THEN {"serial"} ELSE {},
                                   !.pauses = st.pauses]
       /\ msg' = IF pc' = "recv" THEN NoMsg
                  ELSE [id |-> msgCount + 1, payload |-> h.payload,
                        effective_mode |-> h.effective_mode]
  /\ msgCount' = msgCount + 1
  /\ oplog' = <<>>
  /\ UNCHANGED << convCall, cfg, backoff_s, output_choice, mode, skinetic_sender, waits,
                  failsBefore, lastExit >>

\* one item of SerialSender.send: a str item is written; an int item is
\* slept, then the stop command is written.  A write that raises ends send.
SerialItem(ok) ==
  /\ pc = "serial" /\ data # <<>>
  /\ LET item == Head(data)
         op == IF item.kind = "str" THEN "write" ELSE "stop"
     IN /\ oplog' = Append(oplog, Op("serial", msg.id, op, ok))
        /\ data' = IF ok THEN Tail(data) ELSE <<>>
        /\ pc' = AfterItem(data', output_choice, skinetic_sender)
  /\ msg' = IF pc' = "recv" THEN NoMsg ELSE msg
  /\ UNCHANGED << convCall, cfg, backoff_s, output_choice, mode, serial_sender,
                  skinetic_sender, waits, failsBefore, msgCount, last, lastExit >>

SkineticOutcomes ==
  { "ctor_raises", "connect_raises", "not_connected", "load_raises",
    "play_raises", "unload_raises", "ok" }

\* variant: the calls are made whatever state the device reports
SkineticCalls_Always(id, out, h) ==
  CASE out = "load_raises" -> << VOp(id, "load", FALSE, 0) >>
    [] out = "play_raises" ->
         << VOp(id, "load", TRUE, h), VOp(id, "play", FALSE, h) >>
    [] out = "unload_raises" ->
         << VOp(id, "load", TRUE, h), VOp(id, "play", TRUE, h),
            VOp(id, "unload", FALSE, h) >>
    [] OTHER ->
         << VOp(id, "load", TRUE, h), VOp(id, "play", TRUE, h),
            VOp(id, "unload", TRUE, h) >>

\* the calls made on the vendor device for an outcome: pattern_id =
\* load_pattern_json(js); play_effect(pattern_id); unload_pattern(pattern_id).
\* A call that raises ends the sequence.
SkineticCalls(id, out, h) ==
  CASE out = "load_raises" -> << VOp(id, "load", FALSE, 0) >>
    [] out = "play_raises" ->
         << VOp(id, "load", TRUE, h), VOp(id, "play", FALSE, h) >>
    [] out = "unload_raises" ->
         << VOp(id, "load", TRUE, h), VOp(id, "play", TRUE, h),
            VOp(id, "unload", FALSE, h) >>
    [] out = "ok" ->
         << VOp(id, "load", TRUE, h), VOp(id, "play", TRUE, h),
            VOp(id, "unload", TRUE, h) >>
    [] OTHER -> <<>>

\* what a vendor send came to: the device object could not be made or
\* connected, the conversion raised, the device was not in the Connected
\* state, or the device was Connected and the calls were made
VendorResult(connected, convOk, out) ==
  IF ~connected THEN "connect_failed"
  ELSE IF ~convOk THEN "convert_failed"
  ELSE IF out = "not_connected" THEN "not_connected"
  ELSE "connected"

\* skinetic_sender.send_color / send_contour for the message
SkineticSend(out, h) ==
  /\ pc = "skinetic"
  /\ out \in { "ctor_raises", "connect_raises" } => ~skinetic_sender.dev
  /\ LET connected == skinetic_sender.dev \/ out \notin { "ctor_raises", "connect_raises" }
         convOk == IF msg.effective_mode = COLOR THEN ColorConvertOk(msg.payload)
                                                 ELSE HDConvertOk(msg.payload)
     IN /\ skinetic_sender' =
             [skinetic_sender EXCEPT !.dev = skinetic_sender.dev \/ out # "ctor_raises"]
        /\ oplog' = IF connected /\ convOk
                      THEN oplog \o SkineticCalls(msg.id, out, h)
                      ELSE oplog
        /\ last' = [last EXCEPT !.tried = @ \cup {"skinetic"},
                                !.vendor = VendorResult(connected, convOk, out)]
  /\ pc' = "recv"
  /\ msg' = NoMsg
  /\ UNCHANGED << convCall, cfg, backoff_s, output_choice, mode, serial_sender, data,
                  waits, failsBefore, msgCount, lastExit >>

Next ==
  \/ ConnectOk
  \/ \E exc \in ConnectErrors : ConnectFail(exc)
  \/ \E exc \in RecvErrors : RecvClosed(exc)
  \/ Sleep
  \/ Interrupt
  \/ \E raw \in RawMsgs : RecvSkip(raw)
  \/ \E raw \in RawMsgs, sendOk \in BOOLEAN : RecvPing(raw, sendOk)
  \/ \E raw \in RawMsgs : RecvParseError(raw)
  \/ \E raw \in RawMsgs, sendOk \in BOOLEAN : RecvCommand(raw, sendOk)
  \/ \E raw \in RawMsgs, openOk \in BOOLEAN : RecvDispatch(raw, openOk)
  \/ \E ok \in BOOLEAN : SerialItem(ok)
  \/ \E out \in SkineticOutcomes, h \in PatternIds : SkineticSend(out, h)

Spec == Init /\ [][Next]_vars

\* time.sleep returns, a connect attempt returns or raises, and a started
\* dispatch runs to its end
FairSpec ==
  /\ Spec
  /\ WF_vars(Sleep)
  /\ WF_vars(ConnectOk \/ \E exc \in ConnectErrors : ConnectFail(exc))

(***************************************************************************)
(* exp_client.websocket_client: the same loop skeleton with a device mode  *)
(* (auto | serial | skinetic | both) in place of the output choice, no     *)
(* control commands, a serial port that is opened for every message and a  *)
(* serial sender that catches the failure of each write.  The device mode  *)
(* is held in output_choice and the local `dev` of the loop (the handle    *)
(* get_serial_device returned last) in serial_sender.dev; mode is not used.*)
(***************************************************************************)
\* configurations: device mode, serial.port, whether pyserial and the
\* Skinetic pipeline could be imported
XCfg(dm, sp, pyserial, sdk) ==
  [reconnect_initial |-> 2, reconnect_max |-> 30, output |-> dm,
   serial_port |-> sp, pyserial |-> pyserial, sdk |-> sdk]

XConfigs ==
  { XCfg("auto", "/dev/ttyACM0", TRUE, TRUE),
    XCfg("auto", "", TRUE, TRUE),
    XCfg("auto", "/dev/ttyACM0", TRUE, FALSE),
    XCfg("both", "/dev/ttyACM0", TRUE, TRUE),
    XCfg("serial", "/dev/ttyACM0", FALSE, TRUE) }

XInit ==
  /\ cfg \in XConfigs
  /\ backoff_s = 2
  /\ output_choice = cfg.output
  /\ serial_sender = [port |-> cfg.serial_port, dev |-> "None"]
  /\ skinetic_sender =
       [present |-> cfg.output \in { "skinetic", "both", "auto" },
        available |-> cfg.sdk, dev |-> FALSE]
  /\ mode = AUTO
  /\ pc = "connect"
  /\ msg = NoMsg
  /\ data = <<>>
  /\ oplog = <<>>
  /\ waits = <<>>
  /\ failsBefore = -1
  /\ msgCount = 0
  /\ last = NoLast
  /\ lastExit = "none"
  /\ convCall = NoConv

\* the path one message takes through the body of `for raw in ws`, up to
\* the try block that decides the devices
XHandle(raw) ==
  IF raw.enc = "none" THEN H("none", FALSE, FALSE, VInt(0), NoMode)
  ELSE
    LET d == Decode(raw) IN
    IF d.err THEN H("undecodable", FALSE, FALSE, VInt(0), NoMode)
    ELSE IF d.text = "__ping__" THEN H("ping", FALSE, FALSE, VInt(0), NoMode)
    ELSE
      LET j == JsonLoads(d.text) IN
      IF j.res = "JSONDecodeError" THEN H("nonjson", TRUE, FALSE, VInt(0), NoMode)
      ELSE IF j.res # "ok" THEN H("parse_error", TRUE, FALSE, VInt(0), NoMode)
      ELSE IF IsServerEnvelope(j.payload)
        THEN H("envelope", TRUE, FALSE, j.payload, NoMode)
      ELSE H("dispatch", TRUE, TRUE, j.payload, NoMode)

\* what the vendor device answers while the device is being chosen: the
\* constructor or connect raises, get_connection_state raises, or it
\* reports a state
VendorAnswers == { "connect_raises", "state_raises", "not_connected", "connected" }

\* SkineticSenderSPN.connect: nothing without the pipeline or with a device
\* object; a failure leaves dev = None
XConnect(sender, answer) ==
  IF ~sender.available \/ sender.dev THEN sender
  ELSE [sender EXCEPT !.dev = (answer # "connect_raises")]

\* what the vendor channel reports after the connect attempt of
\* resolve_auto_choice
Observed(sender, answer) ==
  IF ~(sender.present /\ sender.available) THEN "unavailable"
  ELSE IF ~XConnect(sender, answer).dev THEN "no_device"
  ELSE answer

\* variant: the serial port is preferred when one is configured
ResolveAuto_SerialFirst(sender, serial_port, answer) ==
  IF serial_port # "" THEN "serial"
  ELSE IF sender.present /\ sender.available
          /\ XConnect(sender, answer).dev /\ answer = "connected"
    THEN "skinetic"
  ELSE "none"

\* variant: the connection state is asked only after a fresh connect; with
\* a device object from an earlier message the vendor device is passed over
ResolveAuto_FirstOnly(sender, serial_port, answer) ==
  IF sender.present /\ sender.available /\ ~sender.dev
     /\ XConnect(sender, answer).dev /\ answer = "connected"
    THEN "skinetic"
  ELSE IF serial_port # "" THEN "serial"
  ELSE "none"

\* resolve_auto_choice(): "skinetic" when the sender exists, the pipeline is
\* available and, after connect(), the device object exists and reports
\* Connected (an exception is logged and falls through); else "serial" when
\* a serial port is configured; else "none"
ResolveAuto(sender, serial_port, answer) ==
  IF sender.present /\ sender.available
     /\ XConnect(sender, answer).dev /\ answer = "connected"
    THEN "skinetic"
  ELSE IF serial_port # "" THEN "serial"
  ELSE "none"

\* choice = device_mode; if device_mode == "auto": choice = resolve_auto_choice()
Choice(device_mode, sender, serial_port, answer) ==
  IF device_mode = "auto" THEN ResolveAuto(sender, serial_port, answer)
                          ELSE device_mode

\* SerialFrameConverter(sentence=payload): the values of a dict and the
\* items of a list are parsed as ContourToSerial parses them (the two
\* _parse_frames are the same); anything else raises TypeError
XSerialConvert(payload) ==
  IF IsDict(payload) THEN [ok |-> TRUE, data |-> ParseWords(payload.pairs, 1)]
  ELSE IF IsList(payload) THEN [ok |-> TRUE, data |-> ParseFrames(payload.items, 1)]
  ELSE [ok |-> FALSE, data |-> <<>>]

\* where the loop goes when the serial path of a message is over
XAfterSerial(choice, sk) ==
  IF choice \in { "skinetic", "both" } /\ sk.present /\ sk.available
    THEN "skinetic" ELSE "recv"

\* variant: a failure to open the serial port reaches the outer handler
\* of the message
XAfterOpen_Outer(openOk, stream, choice, sk) ==
  IF openOk /\ stream # <<>> THEN "serial"
  ELSE IF ~openOk THEN "recv"
  ELSE XAfterSerial(choice, sk)

\* where the loop goes after get_serial_device: into send_serial_data, or,
\* when the open raised ("Serial send failed") or there is nothing to send,
\* on to the vendor path
XAfterOpen(openOk, stream, choice, sk) ==
  IF openOk /\ stream # <<>> THEN "serial" ELSE XAfterSerial(choice, sk)

XRawMsgs ==
  { RawNone, RawBadBytes, RawBytes(Texts.ping) }
  \cup { RawText(x) : x \in { Texts.garbage, Texts.deep, Texts.envelope, Texts.color, Texts.contour,
                               Texts.ordered, Texts.number } }

\* a message that is dropped: raw is None, undecodable bytes, not JSON or
\* a server envelope
XRecvSkip(raw) ==
  /\ pc = "recv" /\ msgCount < MaxMsgs
  /\ LET h == XHandle(raw) IN
       /\ h.outcome \in { "none", "undecodable", "nonjson", "envelope" }
       /\ last' = LastOf(raw, h, msgCount + 1, FALSE, <<>>, <<>>)
  /\ msgCount' = msgCount + 1
  /\ oplog' = <<>>
  /\ UNCHANGED << convCall, cfg, pc, backoff_s, output_choice, mode, serial_sender,
                  skinetic_sender, msg, data, waits, failsBefore, lastExit >>

\* raw == "__ping__": ws.send("__pong__"), whose failure is only logged
XRecvPing(raw, sendOk) ==
  /\ pc = "recv" /\ msgCount < MaxMsgs
  /\ pc' = AfterPong(sendOk)
  /\ LET h == XHandle(raw) IN
       /\ h.outcome = "ping"
       /\ last' = LastOf(raw, h, msgCount + 1, FALSE, <<Pong>>,
                         IF sendOk THEN <<Pong>> ELSE <<>>)
  /\ msgCount' = msgCount + 1
  /\ oplog' = <<>>
  /\ UNCHANGED << convCall, cfg, backoff_s, output_choice, mode, serial_sender,
                  skinetic_sender, msg, data, waits, failsBefore, lastExit >>

\* json.loads raises something other than json.JSONDecodeError
XRecvParseError(raw) ==
  /\ pc = "recv" /\ msgCount < MaxMsgs
  /\ LET h == XHandle(raw) IN
       /\ h.outcome = "parse_error"
       /\ last' = LastOf(raw, h, msgCount + 1, FALSE, <<>>, <<>>)
  /\ msgCount' = msgCount + 1
  /\ pc' = ExceptTarget("Exception")
  /\ lastExit' = "Exception"
  /\ oplog' = <<>>
  /\ UNCHANGED << convCall, cfg, backoff_s, output_choice, mode, serial_sender,
                  skinetic_sender, msg, data, waits, failsBefore >>

\* any other JSON payload: the devices are decided, the serial conversion
\* is built, and the serial path starts with get_serial_device
XRecvDispatch(raw, answer, openOk) ==
  /\ pc = "recv" /\ msgCount < MaxMsgs
  /\ LET asks == output_choice = "auto" /\ skinetic_sender.present
                 /\ skinetic_sender.available
     IN IF asks THEN (answer = "connect_raises" => ~skinetic_sender.dev)
                ELSE answer = "not_connected"
  /\ LET h == XHandle(raw)
         id == msgCount + 1
         choice == Choice(output_choice, skinetic_sender, cfg.serial_port, answer)
         sk == IF output_choice = "auto" /\ skinetic_sender.present
                 THEN XConnect(skinetic_sender, answer) ELSE skinetic_sender
         conv == XSerialConvert(h.payload)
         serial == conv.ok /\ choice \in { "serial", "both" }
                   /\ cfg.serial_port # "" /\ cfg.pyserial
     IN /\ h.outcome = "dispatch"
        /\ skinetic_sender' = sk
        /\ serial_sender' = IF serial /\ openOk
                              THEN [serial_sender EXCEPT !.dev = "open"]
                              ELSE serial_sender
        /\ oplog' = IF serial THEN << Op("serial", id, "open", openOk) >> ELSE <<>>
        /\ data' = IF serial /\ openOk THEN conv.data ELSE <<>>
        /\ pc' = IF ~conv.ok THEN "recv"
                 ELSE IF serial THEN XAfterOpen(openOk, conv.data, choice, sk)
                 ELSE XAfterSerial(choice, sk)
        /\ last' = [LastOf(raw, h, id, conv.ok, <<>>, <<>>)
                      EXCEPT !.choice = choice,
                             !.observed = IF output_choice = "auto"
                                            THEN Observed(skinetic_sender, answer)
                                            ELSE "",
                             !.prevChoice = last.choice,
                             !.prevObserved = last.observed,
                             !.tried = IF serial THEN {"serial"} ELSE {},
                             !.pauses = IF serial THEN Pauses(conv.data) ELSE 0]
        /\ msg' = IF pc' = "recv" THEN NoMsg
                  ELSE [id |-> id, payload |-> h.payload,
                        effective_mode |-> NoMode, choice |-> choice]
  /\ msgCount' = msgCount + 1
  /\ UNCHANGED << convCall, cfg, backoff_s, output_choice, mode, waits,
                  failsBefore, lastExit >>

\* one item of send_serial_data: a str item is written; an int item is
\* slept, then the stop command is written.  A write that raises is logged
\* and the loop goes on with the next item.
XSerialItem(ok) ==
  /\ pc = "serial" /\ data # <<>>
  /\ LET item == Head(data)
         op == IF item.kind = "str" THEN "write" ELSE "stop"
     IN /\ oplog' = Append(oplog, Op("serial", msg.id, op, ok))
        /\ data' = Tail(data)
        /\ pc' = IF data' = <<>> THEN XAfterSerial(msg.choice, skinetic_sender)
                                 ELSE "serial"
  /\ msg' = IF pc' = "recv" THEN NoMsg ELSE msg
  /\ UNCHANGED << convCall, cfg, backoff_s, output_choice, mode, serial_sender,
                  skinetic_sender, waits, failsBefore, msgCount, last, lastExit >>

\* skinetic_sender.send_payload(payload): connect() when there is no device
\* object; the conversion, the state test and the three calls in one try
XSkineticSend(out, h) ==
  /\ pc = "skinetic"
  /\ out \in { "ctor_raises", "connect_raises" } => ~skinetic_sender.dev
  /\ LET connected == skinetic_sender.dev \/ out \notin { "ctor_raises", "connect_raises" }
         convOk == HDConvertOk(msg.payload)
     IN /\ skinetic_sender' = [skinetic_sender EXCEPT !.dev = connected]
        /\ oplog' = IF connected /\ convOk
                      THEN oplog \o SkineticCalls(msg.id, out, h)
                      ELSE oplog
        /\ last' = [last EXCEPT !.tried = @ \cup {"skinetic"},
                                !.vendor = VendorResult(connected, convOk, out)]
  /\ pc' = "recv"
  /\ msg' = NoMsg
  /\ UNCHANGED << convCall, cfg, backoff_s, output_choice, mode, serial_sender, data,
                  waits, failsBefore, msgCount, lastExit >>

XNext ==
  \/ ConnectOk
  \/ \E exc \in ConnectErrors : ConnectFail(exc)
  \/ \E exc \in RecvErrors : RecvClosed(exc)
  \/ Sleep
  \/ Interrupt
  \/ \E raw \in XRawMsgs : XRecvSkip(raw)
  \/ \E raw \in XRawMsgs, sendOk \in BOOLEAN : XRecvPing(raw, sendOk)
  \/ \E raw \in XRawMsgs : XRecvParseError(raw)
  \/ \E raw \in XRawMsgs, answer \in VendorAnswers, openOk \in BOOLEAN :
       XRecvDispatch(raw, answer, openOk)
  \/ \E ok \in BOOLEAN : XSerialItem(ok)
  \/ \E out \in SkineticOutcomes, h \in PatternIds : XSkineticSend(out, h)

XSpec == XInit /\ [][XNext]_vars

(***************************************************************************)
(* The converters as functions: one call of a converter on one payload.    *)
(* convCall holds the payload, the converter that was called, whether it   *)
(* returned and what it returned; the loop does not run.                   *)
(***************************************************************************)
Call(fn, input, ok, out) == [fn |-> fn, input |-> input, ok |-> ok, out |-> out]

\* frame_nodes entries: one index; a list of indices with a scalar intensity;
\* index items that are no integers; indices outside [0, 19]; intensities
\* outside [0, 255]
Nodes ==
  [one |-> Node(VInt(3), VInt(90)),
   list |-> Node(VList(<<VInt(1), VInt(2)>>), VInt(50)),
   three |-> Node(VList(<<VInt(4), VInt(5), VInt(6)>>), VInt(70)),
   bad_item |-> Node(VList(<<VInt(3), VStr("x"), VInt(5)>>),
                     VList(<<VInt(10), VInt(20), VInt(30)>>)),
   bad_first |-> Node(VList(<<VStr("x"), VInt(8)>>), VList(<<VInt(11), VInt(22)>>)),
   bad_scalar |-> Node(VStr("x"), VInt(5)),
   negative |-> Node(VInt(-1), VInt(40)),
   twenty |-> Node(VInt(20), VInt(40)),
   beyond |-> Node(VInt(25), VInt(300)),
   strong |-> Node(VInt(7), VInt(300)),
   weak |-> Node(VInt(8), VInt(-4)),
   last |-> Node(VInt(19), VInt(255))]

\* a frame with an order, as the vendor converter needs it
OFrame(order, dur, nodes) ==
  VDict(<<KV("order", VInt(order)), KV("duration", VInt(dur)),
          KV("frame_nodes", VList(nodes))>>)

\* the example of the design: one frame, one node with two indices
P_example == VDict(<<KV("word", VList(<<FrameA>>))>>)

\* contour payloads: a word with one or two frames, a bare list, two words,
\* a word whose value is one frame or a pause, and values of other types
ContourInputs ==
  LET NodeLists ==
        { <<>> } \cup { << Nodes[n] >> : n \in DOMAIN Nodes }
        \cup { <<Nodes.one, Nodes.strong>>, <<Nodes.bad_item, Nodes.one>>,
               <<Nodes.negative, Nodes.last>>, <<Nodes.list, Nodes.weak>> }
      FirstFrames ==
        { OFrame(1, 100, ns) : ns \in NodeLists }
        \cup { VDict(<<KV("order", VInt(0)), KV("duration", VInt(30))>>),
               VDict(<<KV("order", VInt(0)), KV("duration", VInt(40)),
                       KV("frame_nodes", Nodes.one)>>),
               VDict(<<KV("order", VInt(0)), KV("frame_nodes", VList(<<Nodes.one>>))>>) }
      SecondFrames ==
        { OFrame(o, 20, ns) : o \in {0, 1},
                              ns \in { <<>>, <<Nodes.last>>, <<Nodes.weak, Nodes.twenty>> } }
  IN
    { VDict(<<KV("word", VList(<<f>>))>>) : f \in FirstFrames }
    \cup { VDict(<<KV("word", VList(<<f, g>>))>>) : f \in FirstFrames, g \in SecondFrames }
    \cup { VList(<<f, g>>) : f \in FirstFrames, g \in SecondFrames }
    \cup { VDict(<<KV("a", VList(<<f>>)), KV("b", VList(<<g>>))>>) :
             f \in FirstFrames, g \in SecondFrames }
    \cup { VDict(<<KV("word", f)>>) : f \in FirstFrames }
    \cup { VList(<<f, VInt(15)>>) : f \in FirstFrames }
    \cup { VDict(<<KV("word", VList(<<Frame(100, <<Nodes.one>>),
                                       Frame(20, <<Nodes.last, Nodes.strong>>)>>))>>) }
    \cup { P_example, VDict(<<KV("word", VInt(15))>>), EmptyList, EmptyDict, VInt(7), VInt(0),
           VStr("x"), VStr(""), P_envelope, P_envelope_word }

\* color payloads: r, g, b and intensity of either sign and beyond 255
ColorPayload(r, g, b, i, d) ==
  VDict(<<KV("color", Rgb(r, g, b)), KV("intensity", VInt(i)), KV("duration", VInt(d))>>)

ColorInputs ==
  { ColorPayload(r, g, b, i, 10) : r \in { -5, 0, 128, 255, 300 },
                                   g \in { -5, 0, 128, 255, 300 }, b \in { -5, 77 },
                                   i \in { -1, 0, 100, 255, 300 } }
  \cup { ColorPayload(255, 0, 128, 200, d) : d \in { -3, 0, 160 } }
  \cup { VDict(<<KV("color", Rgb(255, 0, 128))>>),
         VDict(<<KV("color", Rgb(255, 0, 128)), KV("intensity", VStr("x"))>>),
         VDict(<<KV("color", Rgb(255, 0, 128)), KV("intensity", VStr("7"))>>),
         VDict(<<KV("color", VStr("red"))>>) }

\* base URLs and client ids as they are configured or typed in: with and
\* without scheme, with trailing slashes, with the listen path already there
UrlInputs ==
  [base : { "", "host:8000", "ws://localhost:8000", "wss://host:8000/",
            "http://host:8000", "https://host//", " wss://host ",
            "wss://host/ws/listen/test", "wss://host/ws/listen",
            "wss://host/ws/listen/", "host/http://x" },
   client_id : { "", "test", "a1" }]

ConvInit ==
  /\ cfg = Cfg(2, 30, "serial+skinetic", "/dev/ttyACM0")
  /\ backoff_s = cfg.reconnect_initial
  /\ output_choice = cfg.output
  /\ serial_sender = [port |-> cfg.serial_port, dev |-> "None"]
  /\ skinetic_sender = [present |-> TRUE, dev |-> FALSE]
  /\ mode = AUTO
  /\ pc = "connect"
  /\ msg = NoMsg
  /\ data = <<>>
  /\ oplog = <<>>
  /\ waits = <<>>
  /\ failsBefore = -1
  /\ msgCount = 0
  /\ last = NoLast
  /\ lastExit = "none"
  /\ convCall \in { Call("none", x, TRUE, <<>>) : x \in ContourInputs \cup ColorInputs \cup UrlInputs }

LoopVars ==
  << cfg, pc, backoff_s, output_choice, mode, serial_sender, skinetic_sender,
     msg, data, oplog, waits, failsBefore, msgCount, last, lastExit >>

\* ContourToSerial(payload, logger).data
CallContourToSerial ==
  /\ convCall.fn = "none" /\ convCall.input \in ContourInputs
  /\ LET r == ContourToSerial(convCall.input)
     IN convCall' = Call("ContourToSerial", convCall.input, r.ok, r.data)
  /\ UNCHANGED LoopVars

\* SerialFrameConverter(sentence=payload)._data
CallSerialFrameConverter ==
  /\ convCall.fn = "none" /\ convCall.input \in ContourInputs
  /\ LET r == XSerialConvert(convCall.input)
     IN convCall' = Call("SerialFrameConverter", convCall.input, r.ok, r.data)
  /\ UNCHANGED LoopVars

\* ColorToSerial(payload, logger).data
CallColorToSerial ==
  /\ convCall.fn = "none" /\ convCall.input \in ColorInputs
  /\ LET r == ColorToSerial(convCall.input)
     IN convCall' = Call("ColorToSerial", convCall.input, r.ok, r.data)
  /\ UNCHANGED LoopVars

\* the conversion of send_contour: HDFrameConverter(payload)._skinetic,
\* HapticProcessorInput(frame_list=frames).format()
CallSendContour ==
  /\ convCall.fn = "none" /\ convCall.input \in ContourInputs
  /\ LET ok == HDConvertOk(convCall.input)
     IN convCall' = Call("send_contour", convCall.input, ok,
                         IF ok THEN Format(HDEvents(convCall.input)) ELSE <<>>)
  /\ UNCHANGED LoopVars

\* the conversion of send_color: the three frames, format()
CallSendColor ==
  /\ convCall.fn = "none" /\ convCall.input \in ColorInputs
  /\ LET ok == ColorConvertOk(convCall.input)
     IN convCall' = Call("send_color", convCall.input, ok,
                         IF ok THEN Format(ColorEvents(convCall.input)) ELSE <<>>)
  /\ UNCHANGED LoopVars

\* values of serial.terminator: the default "\n", "\r\n" and a long one
Terminators == { << "\n" >>, << "\r", "\n" >>, [i \in 1..60 |-> "-"] }

\* SerialSender.send(ContourToSerial(payload, logger).data) on an open port;
\* the sender does not read the configured terminator
CallSerialSend(term) ==
  /\ convCall.fn = "none" /\ convCall.input \in ContourInputs
  /\ LET r == ContourToSerial(convCall.input)
     IN convCall' = Call("SerialSender.send", convCall.input, r.ok,
                         [term |-> term, items |-> r.data,
                          writes |-> SendWrites(r.data, 1)])
  /\ UNCHANGED LoopVars

\* fc.send_serial_data(dev, fc._data, logger) for fc = SerialFrameConverter(payload)
CallSendSerialData(term) ==
  /\ convCall.fn = "none" /\ convCall.input \in ContourInputs
  /\ XSerialConvert(convCall.input).ok
  /\ LET r == XSerialConvert(convCall.input)
     IN convCall' = Call("send_serial_data", convCall.input, r.ok,
                         [term |-> term, items |-> r.data,
                          writes |-> SendSerialDataWrites(r.data, term, 1)])
  /\ UNCHANGED LoopVars

\* load_config sanitizes the URL and saves it (picture2notes_client line 185,
\* exp_client lines 196-200); the URL is sanitized again when it is read back
\* (websocket_loop line 433, the next load_config)
CallSanitize(fn) ==
  /\ convCall.fn = "none" /\ convCall.input \in UrlInputs
  /\ LET u == convCall.input
         once == IF fn = "sanitize_ws_url"
                   THEN sanitize_ws_url(u.base, u.client_id)
                   ELSE sanitize_websocket_url(u.base, u.client_id)
         again == IF fn = "sanitize_ws_url"
                    THEN sanitize_ws_url(once, u.client_id)
                    ELSE sanitize_websocket_url(once, u.client_id)
     IN convCall' = Call(fn, u, TRUE, [url |-> once, again |-> again])
  /\ UNCHANGED LoopVars

ConvNext ==
  \/ CallContourToSerial
  \/ CallSerialFrameConverter
  \/ CallColorToSerial
  \/ CallSendContour
  \/ CallSendColor
  \/ \E term \in Terminators : CallSerialSend(term)
  \/ \E term \in Terminators : CallSendSerialData(term)
  \/ \E fn \in { "sanitize_ws_url", "sanitize_websocket_url" } : CallSanitize(fn)

ConvSpec == ConvInit /\ [][ConvNext]_vars

(***************************************************************************)
(* Properties of the stream loop                                           *)
(***************************************************************************)
PingRaws == { RawText(Texts.ping), RawBytes(Texts.ping) }
EnvelopeTexts == { Texts.envelope, Texts.envelope_color, Texts.envelope_word }
LoopErrors == ConnectErrors \cup RecvErrors

\* the i-th wait of the sequence 2, 4, 8, 16, 30, 30, 30, ...
RECURSIVE WaitNo(_)
WaitNo(i) == IF i = 1 THEN 2 ELSE Min(30, 2 * WaitNo(i - 1))

\* C1: with initial backoff 2 and ceiling 30, as long as no connect attempt
\* has succeeded, the waits slept so far are 2, 4, 8, 16, 30, 30, 30, ...:
\* each wait is min(30, 2 x the previous wait)
C1_BackoffSequence ==
  (cfg.reconnect_initial = 2 /\ cfg.reconnect_max = 30 /\ failsBefore = -1) =>
    /\ \A i \in 1..Len(waits) : waits[i] = WaitNo(i)
    /\ \A i \in 1..Min(Len(waits), 7) : waits[i] = <<2, 4, 8, 16, 30, 30, 30>>[i]

C1_Witness ==
  /\ cfg.reconnect_initial = 2 /\ cfg.reconnect_max = 30 /\ failsBefore = -1
  /\ Len(waits) >= 7

\* C2: while the loop is Connected the backoff has its initial value, and
\* the first wait after a connection that was established and lost is the
\* initial value, however many failed attempts preceded the connection
C2_BackoffResetOnConnect ==
  failsBefore >= 0 =>
    /\ Connected => backoff_s = cfg.reconnect_initial
    /\ Len(waits) >= 1 => waits[1] = cfg.reconnect_initial

C2_Witness ==
  /\ failsBefore >= MaxFailsSeen
  /\ Len(waits) >= 1
  /\ waits[1] = cfg.reconnect_initial

\* C3: after a connection loss or a failed connect attempt the loop makes
\* another connect attempt, unless an interrupt arrives first
C3_AlwaysRetries ==
  (lastExit \in LoopErrors) ~> (Connecting \/ lastExit = "KeyboardInterrupt")

C3_Witness ==
  /\ Connecting /\ failsBefore >= 0 /\ Len(waits) >= 2

\* C4: the loop ends only by an interrupt; a closed connection, a refused
\* connection, an OS error and any other exception lead to Disconnected
C4_OnlyInterruptEndsLoop ==
  /\ pc \notin { "connect", "recv", "serial", "skinetic", "sleep" } =>
       lastExit = "KeyboardInterrupt"
  /\ lastExit \in LoopErrors => Disconnected

C4_Witness ==
  /\ Disconnected /\ lastExit = "Exception" /\ failsBefore >= 0

\* C5: in Shutdown no device channel is open
C5_ShutdownClosesChannels ==
  Shutdown => (serial_sender.dev # "open" /\ ~skinetic_sender.dev)

\* C6: for a message whose text is __ping__ (sent as text or as bytes) the
\* loop makes exactly one send, of __pong__, and does no JSON parsing, no
\* mode resolution, no conversion and no channel operation
C6_PingAnsweredOnce ==
  (last.id > 0 /\ last.raw \in PingRaws) =>
    /\ last.sendCalls = <<Pong>>
    /\ last.sent \in { <<>>, <<Pong>> }
    /\ ~last.parsed /\ ~last.resolved /\ ~last.converted
    /\ oplog = <<>> /\ data = <<>>
    /\ pc \notin { "serial", "skinetic" }

C6_Witness ==
  /\ last.raw = RawBytes(Texts.ping) /\ last.sent = <<Pong>> /\ pc = "recv"

\* C7: a step that handles a ping whose __pong__ could not be sent leaves
\* the loop Connected, ready to receive, with the backoff unchanged
C7_PongFailureNotFatal ==
  [][(msgCount' # msgCount /\ last'.raw \in PingRaws /\ last'.sent = <<>>) =>
       (pc' = "recv" /\ backoff_s' = backoff_s /\ lastExit' = lastExit)]_vars

C7_Witness ==
  /\ last.raw \in PingRaws /\ last.sent = <<>> /\ last.sendCalls = <<Pong>>
  /\ pc = "recv" /\ msgCount < MaxMsgs

\* C8: no step that handles a message or dispatches it leaves Connected or
\* changes the backoff, except by an interrupt
C8_PayloadFailureKeepsConnection ==
  [][((msgCount' # msgCount \/ pc \in { "serial", "skinetic" })
        /\ lastExit' # "KeyboardInterrupt") =>
       (Connected' /\ backoff_s' = backoff_s)]_vars

\* C9: a payload with both a "type" and a "message" key is not converted
\* and causes no channel operation, whatever other keys it carries
C9_EnvelopeNeverDispatched ==
  (last.id > 0 /\ last.raw.body \in EnvelopeTexts) =>
    /\ ~last.converted /\ ~last.resolved
    /\ oplog = <<>> /\ data = <<>>
    /\ pc \notin { "serial", "skinetic" }

C9_Witness ==
  /\ last.raw.body = Texts.envelope_color /\ pc = "recv"
  /\ HasSerial(output_choice) /\ cfg.serial_port # ""

\* C10: the loop receives only when no dispatch is in flight; every channel
\* operation is made for the message received last; for one message the
\* serial operations all precede the vendor operations
C10_SingleFlight ==
  /\ pc = "recv" => (data = <<>> /\ msg = NoMsg)
  /\ pc \in { "serial", "skinetic" } => msg.id = msgCount
  /\ \A i \in 1..Len(oplog) : oplog[i].msg = msgCount
  /\ \A i, j \in 1..Len(oplog) :
       (i < j /\ oplog[i].ch = "skinetic") => oplog[j].ch = "skinetic"

C10_Witness ==
  /\ pc = "recv" /\ msgCount >= 2 /\ Len(oplog) >= 2
  /\ oplog[1].ch = "serial" /\ oplog[Len(oplog)].ch = "skinetic"

(***************************************************************************)
(* Properties of the dispatch to the channels                              *)
(***************************************************************************)
\* messages that both the serial converter and the dispatch accept
DeviceTexts == { Texts.color, Texts.contour, Texts.ordered }

\* the handling of the last message is over
Handled == last.id > 0 /\ pc = "recv"

\* C11: with output "both" and a serial port configured, every color or
\* contour message is handed to the serial sender and to the vendor sender
C11_BothDispatchesBoth ==
  (cfg.output = "both" /\ output_choice = "both" /\ cfg.serial_port # ""
     /\ Handled /\ last.outcome = "dispatch" /\ last.raw.body \in DeviceTexts) =>
    last.tried = { "serial", "skinetic" }

\* the serial operations of a log, and whether one of them failed
SerialOps(log) == SelectSeq(log, LAMBDA o : o.ch = "serial")
SerialFailed == \E i \in 1..Len(oplog) : oplog[i].ch = "serial" /\ ~oplog[i].ok

\* C12: in device mode both, a message whose serial dispatch failed (the
\* open or a write raised) is still handed to the vendor sender, and the
\* vendor dispatch, failing or not, leaves the serial operations made for
\* the message as they are and the loop connected
C12_ChannelsIndependent ==
  /\ []((Handled /\ last.choice = "both" /\ skinetic_sender.available
           /\ "serial" \in last.tried /\ SerialFailed) =>
          "skinetic" \in last.tried)
  /\ [][(pc = "skinetic" /\ lastExit' # "KeyboardInterrupt") =>
          (SerialOps(oplog') = SerialOps(oplog) /\ pc' = "recv")]_vars

C12_Witness ==
  /\ Handled /\ last.choice = "both"
  /\ Len(oplog) >= 2 /\ oplog[1] = Op("serial", last.id, "open", FALSE)
  /\ "skinetic" \in last.tried /\ last.vendor = "connected"

\* the last message was a payload handled in device mode auto
AutoResolved == cfg.output = "auto" /\ last.id > 0 /\ last.outcome = "dispatch"

\* C13: in device mode auto the choice is skinetic exactly when the vendor
\* device reports Connected after the connect attempt; otherwise serial
\* exactly when a serial port is configured; otherwise none, and for none
\* nothing is written to any channel
C13_AutoChoice ==
  AutoResolved =>
    /\ last.choice \in { "skinetic", "serial", "none" }
    /\ last.choice = "skinetic" <=> last.observed = "connected"
    /\ last.choice = "serial" <=>
         (last.observed # "connected" /\ cfg.serial_port # "")
    /\ last.choice = "none" =>
         /\ oplog = <<>> /\ data = <<>> /\ last.tried = {}
         /\ pc \notin { "serial", "skinetic" }

C13_Witness ==
  /\ AutoResolved /\ Handled
  /\ last.choice = "skinetic" /\ last.observed = "connected"
  /\ last.vendor = "connected" /\ cfg.serial_port # ""

\* C14: in device mode auto the choice is made anew for every message, from
\* what the vendor device reports at that message: when the device was not
\* connected at a message and is connected at the next, the first went to
\* serial or nowhere and the next goes to the vendor device, and the other
\* way round
C14_ResolvedPerMessage ==
  (AutoResolved /\ last.prevObserved # "") =>
    /\ (last.prevObserved # "connected" /\ last.observed = "connected") =>
         (last.prevChoice \in { "serial", "none" } /\ last.choice = "skinetic")
    /\ (last.prevObserved = "connected" /\ last.observed # "connected") =>
         (last.prevChoice = "skinetic" /\ last.choice \in { "serial", "none" })

C14_Witness ==
  /\ AutoResolved /\ Handled
  /\ last.prevObserved = "not_connected" /\ last.prevChoice = "serial"
  /\ last.observed = "connected" /\ last.choice = "skinetic"
  /\ last.vendor = "connected"

(***************************************************************************)
(* Properties of the control commands                                      *)
(***************************************************************************)
\* C15: the command {"cmd":"set_mode","value":"vendor"} received while the
\* mode is auto makes the mode vendor, and one acknowledgment with the new
\* mode is sent
C15_SetModeVendor ==
  (last.id = 1 /\ last.raw.body = Texts.set_mode_vendor) =>
    (mode = "vendor" /\ last.sendCalls = << Ack("mode", "vendor") >>)

\* C15 (amended): set_mode with an accepted value (color) sets the mode in
\* the step that handles the command and makes one send of the
\* acknowledgment with the new mode; set_mode with the value vendor leaves
\* the mode as it was and sends nothing
C15_SetModeAccepted ==
  [][(msgCount' # msgCount /\ last'.outcome = "command") =>
       /\ last'.raw.body = Texts.set_mode =>
            (mode' = COLOR /\ last'.sendCalls = << Ack("mode", COLOR) >>
               /\ pc' = "recv")
       /\ last'.raw.body = Texts.set_mode_vendor =>
            (mode' = mode /\ last'.sendCalls = <<>> /\ pc' = "recv")]_vars

C15_Witness ==
  /\ last.id = 2 /\ last.raw.body = Texts.set_mode_vendor
  /\ mode = COLOR /\ last.sendCalls = <<>> /\ pc = "recv"

\* the channels an output value names
Named(o) ==
  CASE o = "serial" -> { "serial" }
    [] o = "skinetic" -> { "skinetic" }
    [] o = "both" -> { "serial", "skinetic" }
    [] OTHER -> {}

\* C16: once a set_output command has changed the output, every color or
\* contour message is handed to exactly the senders of the channels the
\* output names, whatever the output was at start-up
C16_SetOutputTakesEffect ==
  (output_choice # cfg.output /\ output_choice \in OutputValues
     /\ Handled /\ last.outcome = "dispatch" /\ last.raw.body \in DeviceTexts) =>
    last.tried = Named(output_choice)

\* the connection was lost after at least one message and is established
\* again; no message has been received on it yet
Reconnected == pc = "recv" /\ last.id = 0 /\ msgCount >= 1

\* C17: after a reconnect the mode and the output are the configured ones:
\* a value set by a command is gone
C17_CommandLostOnReconnect ==
  Reconnected => (output_choice = cfg.output /\ mode = AUTO)

\* C17 (amended): only the step that handles a control command changes the
\* mode or the output; losing the connection, waiting and connecting again
\* leave them as the last command set them
C17_CommandSurvivesReconnect ==
  [][(output_choice' # output_choice \/ mode' # mode) =>
       (pc = "recv" /\ msgCount' # msgCount /\ last'.outcome = "command")]_vars

C17_Witness ==
  /\ Reconnected /\ mode = COLOR /\ output_choice = "skinetic"
  /\ cfg.output # "skinetic"

(***************************************************************************)
(* Properties of the vendor and serial senders                             *)
(***************************************************************************)
\* the vendor calls of a log
VendorOps(log) == SelectSeq(log, LAMBDA o : o.ch = "skinetic")

\* C18: for a message sent to a connected vendor device whose load returned
\* a handle, the calls are load, play with that handle, unload with that
\* handle, once each and in this order
C18_LoadPlayUnload ==
  LET v == VendorOps(oplog) IN
    (Handled /\ last.vendor = "connected" /\ Len(v) >= 1 /\ v[1].ok) =>
      /\ Len(v) = 3
      /\ v[1].op = "load" /\ v[2].op = "play" /\ v[3].op = "unload"
      /\ v[2].h = v[1].h /\ v[3].h = v[1].h

\* C19: when the vendor device reports a state other than Connected, no
\* load, play or unload call is made for the message and the message is
\* not kept; the vendor calls in the log are those of the message handled
\* last, which found the device Connected
C19_NotConnectedDrops ==
  /\ last.vendor = "not_connected" =>
       (VendorOps(oplog) = <<>> /\ msg = NoMsg /\ data = <<>>)
  /\ \A i \in 1..Len(oplog) :
       oplog[i].ch = "skinetic" =>
         (oplog[i].msg = last.id /\ last.vendor = "connected")

C19_Witness ==
  /\ Handled /\ last.id = 2
  /\ last.prevObserved = "not_connected" /\ last.vendor = "connected"
  /\ Len(VendorOps(oplog)) = 3

\* the stop commands written for the message
StopWrites == Cardinality({ i \in 1..Len(oplog) :
                              oplog[i].ch = "serial" /\ oplog[i].op = "stop" })

\* C20: for a message whose stream the serial sender started to send, the
\* number of all-stop writes equals the number of pauses of the stream
C20_StopPerPause ==
  (Handled /\ "serial" \in last.tried
     /\ \E i \in 1..Len(oplog) :
          oplog[i].ch = "serial" /\ oplog[i].op \in { "write", "stop" }) =>
    StopWrites = last.pauses

\* C21: a message dispatched to the serial channel while the handle opened
\* for an earlier message is still held does not open the serial port again
C21_OpenedOnce ==
  [][(serial_sender.dev = "open" /\ msgCount' = msgCount + 1)
       => ~(\E i \in 1..Len(oplog') : oplog'[i].op = "open")]_vars

(***************************************************************************)
(* Claims about the converters, on ConvSpec                                *)
(***************************************************************************)
\* a call of one of the two serial contour converters has returned
SerialCall ==
  /\ convCall.fn \in { "ContourToSerial", "SerialFrameConverter" }
  /\ convCall.ok

IsEntry(e) == IsDict(e) \/ IsInt(e)

\* the entries a value of the payload holds: its Frames (dicts) and bare
\* pauses (integers), in the order of the payload
EntriesOfValue(v) ==
  IF IsDict(v) \/ IsInt(v) THEN << v >>
  ELSE IF IsList(v) THEN SelectSeq(v.items, IsEntry)
  ELSE <<>>

RECURSIVE EntriesOfPairs(_, _)
EntriesOfPairs(pairs, i) ==
  IF i > Len(pairs) THEN <<>>
  ELSE EntriesOfValue(pairs[i].v) \o EntriesOfPairs(pairs, i + 1)

Entries(payload) ==
  IF IsDict(payload) THEN EntriesOfPairs(payload.pairs, 1)
  ELSE EntriesOfValue(payload)

\* the nodes of a Frame
NodesOf(frame) ==
  LET f0 == Get(frame, "frame_nodes", EmptyList)
  IN IF IsDict(f0) THEN << f0 >> ELSE IF IsList(f0) THEN f0.items ELSE <<>>

\* the node indices of a Frame that are integers
FrameIdxs(frame) ==
  LET ns == NodesOf(frame)
  IN { IntValue(AsList(Get(ns[j], "node_index", EmptyList))[k]) :
         <<j, k>> \in { jk \in (1..Len(ns)) \X (1..3) :
                          /\ jk[2] <= Len(AsList(Get(ns[jk[1]], "node_index", EmptyList)))
                          /\ IntParses(AsList(Get(ns[jk[1]], "node_index", EmptyList))[jk[2]]) } }

\* the position of the k-th Pause of a stream (0 for k = 0)
NthPause(stream, k) ==
  IF k = 0 THEN 0
  ELSE CHOOSE p \in 1..Len(stream) :
         /\ stream[p].kind = "int"
         /\ Cardinality({ q \in 1..p : stream[q].kind = "int" }) = k

\* the part of a stream between the Pause of entry k - 1 and that of entry k
Segment(stream, k) ==
  SubSeq(stream, NthPause(stream, k - 1) + 1, NthPause(stream, k) - 1)

\* C22: every Frame of a contour payload contributes exactly one Pause, equal
\* to its duration, after all its Actuates and before the entries of the
\* next Frame, also when it has no frame_nodes or an empty list
C22_OnePausePerFrame ==
  (SerialCall /\ ~IsServerEnvelope(convCall.input)) =>
    LET es == Entries(convCall.input)
        out == convCall.out
    IN /\ Pauses(out) = Len(es)
       /\ \A k \in 1..Len(es) :
            IsDict(es[k]) =>
              /\ out[NthPause(out, k)].val = ToInt(Get(es[k], "duration", VInt(0)), 0)
              /\ { Segment(out, k)[q].idx : q \in 1..Len(Segment(out, k)) }
                   = FrameIdxs(es[k])

C22_Witness ==
  /\ convCall.fn = "SerialFrameConverter"
  /\ convCall.input =
       VDict(<<KV("word", VList(<<OFrame(1, 100, <<Nodes.one>>), OFrame(0, 20, <<>>)>>))>>)
  /\ convCall.out = << AStr(3, 90), AInt(100), AInt(20) >>

\* a node entry with a scalar intensity and a list of more than one index,
\* all integers
ScalarOverList(n) ==
  /\ IsDict(n)
  /\ IsInt(Get(n, "intensity", EmptyList))
  /\ IsList(Get(n, "node_index", EmptyList))
  /\ LET idxs == Get(n, "node_index", EmptyList).items
     IN Len(idxs) > 1 /\ \A m \in 1..Len(idxs) : IsInt(idxs[m])

\* C23: a node with a scalar intensity and a list of N > 1 integer indices
\* gives exactly N Actuates with that intensity, in the order of the list,
\* and its frame ends with one Pause equal to the frame's duration; the
\* design's example yields "[L,1:50]", "[L,2:50]", 100
C23_ScalarIntensityRepeated ==
  (SerialCall /\ ~IsServerEnvelope(convCall.input)) =>
    LET es == Entries(convCall.input)
        out == convCall.out
    IN /\ \A k \in 1..Len(es) :
            IsDict(es[k]) =>
              \A j \in 1..Len(NodesOf(es[k])) :
                ScalarOverList(NodesOf(es[k])[j]) =>
                  LET n == NodesOf(es[k])[j]
                      idxs == Get(n, "node_index", EmptyList).items
                      v == Get(n, "intensity", EmptyList).n
                      seg == Segment(out, k)
                  IN /\ \E p \in 0..(Len(seg) - Len(idxs)) :
                          \A m \in 1..Len(idxs) : seg[p + m] = AStr(idxs[m].n, v)
                     /\ Cardinality({ q \in 1..Len(seg) :
                                        \E m \in 1..Len(idxs) : seg[q].idx = idxs[m].n })
                          = Len(idxs)
                     /\ out[NthPause(out, k)]
                          = AInt(ToInt(Get(es[k], "duration", VInt(0)), 0))
       /\ convCall.input = P_example =>
            out = << AStr(1, 50), AStr(2, 50), AInt(100) >>

C23_Witness ==
  /\ convCall.fn = "ContourToSerial"
  /\ convCall.input = P_example
  /\ convCall.out = << AStr(1, 50), AStr(2, 50), AInt(100) >>

\* the node_index items and the intensities of a node entry, as lists
IdxsOf(n) == AsList(Get(n, "node_index", EmptyList))
ValsOf(n) == AsList(Get(n, "intensity", EmptyList))

\* a node entry with an index that is no integer, and one intensity per index
HasBadIndex(n) ==
  /\ IsDict(n)
  /\ Len(ValsOf(n)) = Len(IdxsOf(n))
  /\ \E m \in 1..Len(IdxsOf(n)) : ~IntParses(IdxsOf(n)[m])

\* the positions <<node, item>> of a Frame whose index is an integer
GoodPositions(frame) ==
  { jm \in (1..Len(NodesOf(frame))) \X (1..3) :
      /\ jm[2] <= Len(IdxsOf(NodesOf(frame)[jm[1]]))
      /\ IntParses(IdxsOf(NodesOf(frame)[jm[1]])[jm[2]]) }

\* C24: a node_index item that is no integer gives no Actuate and does not
\* end the frame: the other indices of the node are emitted with the
\* intensity at their own position, later nodes and frames are converted,
\* and the frame ends with its Pause
C24_BadIndexDropped ==
  (SerialCall /\ ~IsServerEnvelope(convCall.input)) =>
    LET es == Entries(convCall.input)
        out == convCall.out
    IN \A k \in 1..Len(es) :
         (IsDict(es[k])
            /\ \E j \in 1..Len(NodesOf(es[k])) : HasBadIndex(NodesOf(es[k])[j])) =>
           LET ns == NodesOf(es[k])
               seg == Segment(out, k)
           IN /\ Pauses(out) = Len(es)
              /\ out[NthPause(out, k)] = AInt(ToInt(Get(es[k], "duration", VInt(0)), 0))
              /\ Len(seg) = Cardinality(GoodPositions(es[k]))
              /\ \A j \in 1..Len(ns) :
                   HasBadIndex(ns[j]) =>
                     \A m \in 1..Len(IdxsOf(ns[j])) :
                       IntParses(IdxsOf(ns[j])[m]) =>
                         \E q \in 1..Len(seg) :
                           seg[q] = AStr(IntValue(IdxsOf(ns[j])[m]),
                                         ToInt(ValsOf(ns[j])[m], 0))
              /\ \A j \in 1..Len(ns) :
                   ~HasBadIndex(ns[j]) =>
                     \A m \in 1..Len(IdxsOf(ns[j])) :
                       \E q \in 1..Len(seg) : seg[q].idx = IntValue(IdxsOf(ns[j])[m])
              /\ \A k2 \in (k + 1)..Len(es) :
                   IsDict(es[k2]) =>
                     { Segment(out, k2)[q].idx : q \in 1..Len(Segment(out, k2)) }
                       = FrameIdxs(es[k2])

C24_Witness ==
  /\ convCall.fn = "ContourToSerial"
  /\ convCall.input =
       VDict(<<KV("word", VList(<<OFrame(1, 100, <<Nodes.bad_item, Nodes.one>>),
                                  OFrame(0, 20, <<Nodes.last>>)>>))>>)
  /\ convCall.out = << AStr(3, 10), AStr(5, 30), AStr(3, 90), AInt(100),
                       AStr(19, 255), AInt(20) >>

\* C25: a serial contour converter returns a stream for a payload that is a
\* mapping, a list or an integer, and fails exactly for every other payload
C25_FailsOnlyForOtherShapes ==
  convCall.fn \in { "ContourToSerial", "SerialFrameConverter" } =>
    (convCall.ok <=> convCall.input.t \in { "dict", "list", "int" })

\* a color payload whose r, g, b, intensity and duration are integers
IntColor(p) ==
  /\ IsDict(p) /\ HasKey(p, "color") /\ HasKey(p, "intensity") /\ HasKey(p, "duration")
  /\ IsInt(Get(p, "intensity", EmptyList)) /\ IsInt(Get(p, "duration", EmptyList))
  /\ LET c == Get(p, "color", EmptyList)
     IN /\ IsDict(c)
        /\ \A key \in { "r", "g", "b" } : HasKey(c, key) /\ IsInt(Get(c, key, EmptyList))

\* the r, g, b of a color payload
ChannelsOf(p) ==
  LET c == Get(p, "color", EmptyDict)
  IN << Get(c, "r", VInt(0)).n, Get(c, "g", VInt(0)).n, Get(c, "b", VInt(0)).n >>

\* the three scaled values a color conversion returned: the values of the
\* Actuates, or the intensities of the events behind the KeyFrames
ScaledOf(call) ==
  IF call.fn = "ColorToSerial"
    THEN [k \in 1..3 |-> call.out[k].val]
    ELSE [k \in 1..3 |-> call.out[k].annotation.intensity]

\* C26: for integer r, g, b and intensity of any sign and size, each scaled
\* output lies between 0 and the intensity clamped to [0, 255], and is 0
\* when its channel is 0 or negative
C26_ScaledWithinIntensity ==
  (convCall.fn \in { "ColorToSerial", "send_color" } /\ IntColor(convCall.input)) =>
    /\ convCall.ok
    /\ \A k \in 1..3 :
         /\ 0 <= ScaledOf(convCall)[k]
         /\ ScaledOf(convCall)[k]
              <= Max(0, Min(255, Get(convCall.input, "intensity", VInt(255)).n))
         /\ ChannelsOf(convCall.input)[k] <= 0 => ScaledOf(convCall)[k] = 0

C26_Witness ==
  /\ convCall.fn = "ColorToSerial"
  /\ convCall.input = ColorPayload(300, -5, 77, 100, 10)
  /\ ScaledOf(convCall) = << 100, 0, 30 >>

\* C27: for integer r, g, b, intensity and duration, send_color makes three
\* events at nodes 9, 6 and 4 whose intensities are, node for node, those of
\* the three Actuates of ColorToSerial for the same payload
C27_VendorColorMatchesSerial ==
  (convCall.fn = "send_color" /\ IntColor(convCall.input)) =>
    LET serial == ColorToSerial(convCall.input).data
    IN /\ convCall.ok
       /\ Len(convCall.out) = 3
       /\ [k \in 1..3 |-> convCall.out[k].annotation.node] = << 9, 6, 4 >>
       /\ \A k \in 1..3 :
            /\ serial[k].kind = "str"
            /\ serial[k].idx = convCall.out[k].annotation.node
            /\ serial[k].val = convCall.out[k].annotation.intensity

C27_Witness ==
  /\ convCall.fn = "send_color"
  /\ convCall.input = ColorPayload(255, 0, 128, 200, 160)
  /\ [k \in 1..3 |-> convCall.out[k].annotation.intensity] = << 200, 0, 100 >>

\* a vendor conversion has returned its KeyFrames
VendorCall == convCall.fn \in { "send_contour", "send_color" } /\ convCall.ok

\* the events behind a vendor call, in the order of the payload
EventsOf(call) ==
  IF call.fn = "send_color" THEN ColorEvents(call.input) ELSE HDEvents(call.input)

\* C28: the KeyFrames stand in ascending order of their events' order, and
\* events of equal order keep the relative position they have in the payload
C28_KeyFramesSortedStable ==
  (convCall.fn = "send_contour" /\ convCall.ok) =>
    LET evs == EventsOf(convCall)
        out == convCall.out
    IN /\ Len(out) = Len(evs)
       /\ \E pi \in Permutations(1..Len(evs)) :
            /\ \A k \in 1..Len(evs) : out[k] = SpatKeyFrame(evs[pi[k]])
            /\ \A k, l \in 1..Len(evs) :
                 k < l => \/ evs[pi[k]].order < evs[pi[l]].order
                          \/ evs[pi[k]].order = evs[pi[l]].order /\ pi[k] < pi[l]

C28_Witness ==
  /\ convCall.fn = "send_contour" /\ convCall.ok
  /\ convCall.input =
       VDict(<<KV("word", VList(<<OFrame(1, 100, <<Nodes.one, Nodes.strong>>),
                                  OFrame(0, 20, <<Nodes.last>>)>>))>>)
  /\ [k \in 1..Len(convCall.out) |-> convCall.out[k].annotation.node] = << 19, 3, 7 >>

\* a contour payload as the design describes it: words that are lists of
\* frames with an integer order and duration and a list of nodes, each with
\* one integer node_index and one integer intensity
WellFormedContour(p) ==
  /\ IsDict(p)
  /\ \A w \in 1..Len(p.pairs) :
       /\ IsList(p.pairs[w].v)
       /\ \A f \in 1..Len(p.pairs[w].v.items) :
            LET frame == p.pairs[w].v.items[f] IN
            /\ IsDict(frame)
            /\ \A key \in { "order", "duration", "frame_nodes" } : HasKey(frame, key)
            /\ IsInt(Get(frame, "order", EmptyList))
            /\ IsInt(Get(frame, "duration", EmptyList))
            /\ IsList(Get(frame, "frame_nodes", EmptyList))
            /\ \A n \in 1..Len(NodesOf(frame)) :
                 /\ IsDict(NodesOf(frame)[n])
                 /\ IsInt(Get(NodesOf(frame)[n], "node_index", EmptyList))
                 /\ IsInt(Get(NodesOf(frame)[n], "intensity", EmptyList))

\* the positions <<word, frame, node>> of the nodes of a well-formed payload
NodePositions(p) ==
  UNION { UNION { { <<w, f, n>> : n \in 1..Len(NodesOf(p.pairs[w].v.items[f])) } :
                  f \in 1..Len(p.pairs[w].v.items) } :
          w \in 1..Len(p.pairs) }

NodeAt(p, pos) == NodesOf(p.pairs[pos[1]].v.items[pos[2]])[pos[3]]

\* the payload has a node whose index is negative or 20 and above
HasOutsideIndex(p) ==
  \E pos \in NodePositions(p) :
    Get(NodeAt(p, pos), "node_index", EmptyList).n \notin 0..(NumWeights - 1)

\* C29: a well-formed payload with a node_index outside [0, 19] is converted,
\* and the KeyFrame of such an event has 20 weights that are all zero
C29_OutsideIndexAllZero ==
  (convCall.fn = "send_contour" /\ WellFormedContour(convCall.input)
     /\ HasOutsideIndex(convCall.input)) =>
    /\ convCall.ok
    /\ Len(convCall.out) = Cardinality(NodePositions(convCall.input))
    /\ \A k \in 1..Len(convCall.out) :
         convCall.out[k].annotation.node \notin 0..(NumWeights - 1) =>
           convCall.out[k].weights = [w \in 1..NumWeights |-> 0]

C29_Witness ==
  /\ convCall.fn = "send_contour" /\ convCall.ok
  /\ convCall.input = VDict(<<KV("word", VList(<<OFrame(1, 100, <<Nodes.negative, Nodes.last>>)>>))>>)
  /\ convCall.out[1].weights = [w \in 1..NumWeights |-> 0]
  /\ convCall.out[2].weights[20] = 255

\* C30: every KeyFrame has exactly 20 integer weights, at most one of them
\* non-zero, that one at the event's node_index with a value in [0, 255],
\* and timestamp 0; there is one KeyFrame per event
C30_KeyFrameShape ==
  VendorCall =>
    /\ Len(convCall.out) =
         (IF convCall.fn = "send_color" THEN 3
          ELSE IF IsDict(convCall.input)
            THEN Cardinality(NodePositions(convCall.input))
          ELSE 0)
    /\ \A k \in 1..Len(convCall.out) :
         LET kf == convCall.out[k] IN
         /\ kf.timestamp = 0
         /\ DOMAIN kf.weights = 1..20
         /\ \A w \in 1..20 : kf.weights[w] \in 0..255
         /\ Cardinality({ w \in 1..20 : kf.weights[w] # 0 }) <= 1
         /\ \A w \in 1..20 : kf.weights[w] # 0 => w = kf.annotation.node + 1

C30_Witness ==
  /\ convCall.fn = "send_contour" /\ convCall.ok
  /\ convCall.input = VDict(<<KV("word", VList(<<OFrame(1, 100, <<Nodes.one, Nodes.strong>>)>>))>>)
  /\ Len(convCall.out) = 2
  /\ convCall.out[1].weights[4] = 90
  /\ convCall.out[2].weights[8] = 255

\* a contour payload whose frames carry no "order" and are well-formed
\* otherwise: an integer duration and a list of nodes, each with one integer
\* node_index and one integer intensity
ContourWithoutOrder(p) ==
  /\ IsDict(p) /\ p.pairs # <<>>
  /\ \A w \in 1..Len(p.pairs) :
       /\ IsList(p.pairs[w].v)
       /\ \A f \in 1..Len(p.pairs[w].v.items) :
            LET frame == p.pairs[w].v.items[f] IN
            /\ IsDict(frame) /\ ~HasKey(frame, "order")
            /\ HasKey(frame, "duration") /\ IsInt(Get(frame, "duration", EmptyList))
            /\ HasKey(frame, "frame_nodes") /\ IsList(Get(frame, "frame_nodes", EmptyList))
            /\ NodesOf(frame) # <<>>
            /\ \A n \in 1..Len(NodesOf(frame)) :
                 /\ IsDict(NodesOf(frame)[n])
                 /\ IsInt(Get(NodesOf(frame)[n], "node_index", EmptyList))
                 /\ IsInt(Get(NodesOf(frame)[n], "intensity", EmptyList))

\* position a stands before position b in the traversal word, frame, node
Before(a, b) ==
  \/ a[1] < b[1]
  \/ a[1] = b[1] /\ a[2] < b[2]
  \/ a[1] = b[1] /\ a[2] = b[2] /\ a[3] < b[3]

\* the k-th node position of a payload in traversal order
NthPosition(p, k) ==
  CHOOSE pos \in NodePositions(p) :
    Cardinality({ q \in NodePositions(p) : Before(q, pos) }) = k - 1

\* C31: a contour payload whose frames carry no "order" is converted for
\* the vendor channel, and its KeyFrames stand in traversal order (words,
\* then frames, then nodes)
C31_OrderFromTraversal ==
  (convCall.fn = "send_contour" /\ ContourWithoutOrder(convCall.input)) =>
    /\ convCall.ok
    /\ Len(convCall.out) = Cardinality(NodePositions(convCall.input))
    /\ \A k \in 1..Len(convCall.out) :
         convCall.out[k].annotation.node =
           Get(NodeAt(convCall.input, NthPosition(convCall.input, k)),
               "node_index", EmptyList).n

\* the class of a decoded payload by the first rule that matches: server
\* envelope, control command, color directive, contour directive, or none
ClassOf(p) ==
  IF IsDict(p) /\ HasKey(p, "type") /\ HasKey(p, "message") THEN "envelope"
  ELSE IF IsDict(p) /\ HasKey(p, "cmd") THEN "command"
  ELSE IF IsDict(p) /\ HasKey(p, "color") /\ IsDict(Get(p, "color", EmptyList))
    THEN "color"
  ELSE IF detect_mode(p) = CONTOUR THEN "contour"
  ELSE "unrecognized"

\* the last message was JSON, and its payload
LastIsJson ==
  /\ last.id > 0 /\ last.parsed
  /\ JsonLoads(Decode(last.raw).text).res = "ok"

LastPayload == JsonLoads(Decode(last.raw).text).payload

\* C32: a payload with a "cmd" key is never converted, a payload with a
\* "color" mapping is converted as a color directive and not as a contour,
\* and an unrecognized payload is not converted and causes no write to any
\* channel
C32_ClassifiedInOrder ==
  LastIsJson =>
    /\ ClassOf(LastPayload) \in { "command", "unrecognized" } =>
         ~last.converted /\ oplog = <<>>
    /\ (ClassOf(LastPayload) = "color" /\ msg.id = last.id) =>
         msg.effective_mode = COLOR

\* the bytes of a sequence of write calls, in write order
RECURSIVE Joined(_)
Joined(writes) ==
  IF writes = <<>> THEN <<>> ELSE Head(writes) \o Joined(Tail(writes))

\* the commands of a stream as the wire format names them, each followed by
\* the terminator
RECURSIVE WireOf(_, _)
WireOf(items, term) ==
  IF items = <<>> THEN <<>>
  ELSE (IF Head(items).kind = "str" THEN CommandText(Head(items)) ELSE StopText)
       \o term \o WireOf(Tail(items), term)

\* C33: every Actuate written is "[L,<node_index>:<intensity>]" followed by
\* the configured terminator and every stop command "[L,all:0]" followed by
\* the terminator; a write call carries at most 64 bytes and the chunks, in
\* write order, make up the encoded commands
C33_WireFormat ==
  convCall.fn \in { "SerialSender.send", "send_serial_data" } =>
    /\ \A w \in 1..Len(convCall.out.writes) : Len(convCall.out.writes[w]) <= 64
    /\ Joined(convCall.out.writes) = WireOf(convCall.out.items, convCall.out.term)

\* C34: for every configured initial backoff and ceiling, also an initial
\* value above the ceiling, every wait slept before a reconnect attempt is
\* at most the ceiling
C34_WaitAtMostCeiling ==
  \A i \in 1..Len(waits) : waits[i] <= cfg.reconnect_max

\* an Actuate of the message has been written to the serial channel
ActuateWritten ==
  \E i \in 1..Len(oplog) : oplog[i].ch = "serial" /\ oplog[i].op = "write" /\ oplog[i].ok

\* C35: after an Actuate has been written, a write that raises does not end
\* the sending of the stream: the stop commands of the items behind the
\* failed one are still to be written
C35_FailedWriteKeepsStops ==
  [][(pc = "serial" /\ ActuateWritten /\ Len(oplog') = Len(oplog) + 1
        /\ ~oplog'[Len(oplog')].ok)
       => (data' = Tail(data) /\ (data' # <<>> => pc' = "serial"))]_vars

\* C36: when the vendor dispatch of a message is over, every pattern handle
\* a load returned during it has been unloaded, also when play or unload
\* raised
C36_NoPatternLeftLoaded ==
  Handled =>
    \A i \in 1..Len(oplog) :
      (oplog[i].ch = "skinetic" /\ oplog[i].op = "load" /\ oplog[i].ok) =>
        \E j \in (i + 1)..Len(oplog) :
          /\ oplog[j].ch = "skinetic" /\ oplog[j].op = "unload"
          /\ oplog[j].ok /\ oplog[j].h = oplog[i].h

\* C37: a set_output or set_mode command with a value that is not accepted
\* leaves the output choice and the mode as they were and sends nothing;
\* get_output and get_mode send the current value and change nothing; no
\* command, valid or not, is followed by a call on a device channel
C37_CommandsOnlySetAndReply ==
  [][(pc = "recv" /\ last'.id = last.id + 1 /\ last'.outcome = "command") =>
       LET p == Handle(last'.raw, mode).payload
           cmd == StrOf(Get(p, "cmd", VStr("")))
           value == StrOf(Get(p, "value", VStr("")))
           rejected ==
             \/ cmd = "set_output" /\ value \notin { "serial", "skinetic", "both" }
             \/ cmd = "set_mode" /\ value \notin { "color", "contour", "auto" }
       IN /\ rejected =>
               /\ output_choice' = output_choice /\ mode' = mode
               /\ last'.sendCalls = <<>>
          /\ cmd = "get_output" =>
               /\ output_choice' = output_choice /\ mode' = mode
               /\ last'.sendCalls = << Info("output", output_choice) >>
          /\ cmd = "get_mode" =>
               /\ output_choice' = output_choice /\ mode' = mode
               /\ last'.sendCalls = << Info("mode", mode) >>
          /\ pc' = "recv" /\ oplog' = <<>> /\ data' = data
          /\ serial_sender' = serial_sender /\ skinetic_sender' = skinetic_sender]_vars

\* the second message is set_output with the value usb, after a set_output
\* that changed the output: the output is still the commanded one, nothing
\* was sent and no device call was made
C37_Witness ==
  /\ last.id = 2 /\ last.outcome = "command" /\ last.raw.body = Texts.bad_cmd
  /\ output_choice = "skinetic" /\ cfg.output # "skinetic"
  /\ last.sendCalls = <<>> /\ oplog = <<>> /\ pc = "recv"

\* C38: an interrupt that arrives during the backoff delay takes the loop to
\* Shutdown, as one that arrives while connected does; it does not leave the
\* loop unhandled
C38_InterruptInBackoffHandled ==
  [][(pc = "sleep" /\ lastExit' = "KeyboardInterrupt" /\ pc' # pc)
       => pc' = "shutdown"]_vars

\* C39: sanitizing a URL that is already the result of sanitizing, with the
\* same client id (the empty id included), returns it unchanged
C39_SanitizeIdempotent ==
  convCall.fn \in { "sanitize_ws_url", "sanitize_websocket_url" } =>
    convCall.out.again = convCall.out.url
====
